---- MODULE Spec2Model ----
(***************************************************************************)
(* Shipment data pipeline of truesight.me: CSV parsing, keyed merge of the *)
(* two CSV exports, coordinate extraction from map URLs, and the scripts   *)
(* that write the result into the "Shipment Ledger Listing" sheet.         *)
(*                                                                         *)
(* A JavaScript string is modelled as a sequence of one-character strings, *)
(* so that trim(), toUpperCase(), the quote-stripping replace() and the    *)
(* regular expressions are computed character by character.                *)
(***************************************************************************)
EXTENDS Integers, Sequences, FiniteSets, TLC

VARIABLES
    csvSource,      \* the record set the CSV text was written from (NoSource: raw text)
    csvContent,     \* content: the text handed to parseCSV
    csvPc,          \* "ready", "parsed" after the call, then "logged" or "TypeError"
    csvResult,      \* what parseCSV (merge-and-upload variant) returned
    csvRowsResult,  \* what parseCSV (array-returning variant) returned
    coordUrl,       \* the Google Maps URL of the row or shipment
    coordLat,       \* its explicit Latitude
    coordLng,       \* its explicit Longitude
    coordPc,        \* "ready", then the operation that was applied
    coordResult,    \* the coordinate pair the operation produced
    extractorCalls, \* how many times the operation called extractCoordinates
    oldRows,        \* oldData.dataRows: the records of the old CSV export
    newRows,        \* newData.dataRows: the records of the new CSV export
    mergePc,        \* "ready", then the merge operation that was applied
    mergeResult,    \* what mergeShipments(oldRows[1], newRows[1]) returned
    mergedShipments,\* Array.from(shipmentMap.values()) after the keyed merge
    sheetRows,      \* the rows of the sheet, in sheet order
    sheetBefore,    \* the rows of the sheet before the last script run
    oldDataRows,    \* the records of the old CSV file the scripts read
    newDataRows,    \* the records of the new CSV file the scripts read
    scriptRuns,     \* the scripts that have run, in order
    setCells,       \* row.set calls of the last run: <<row index, column, value>>
    savedRows,      \* row.save calls of the last run
    addedRows,      \* sheet.addRow calls of the last run
    renderRow,      \* the sheet row a page is rendered from
    renderImages,   \* the image files that exist on disk when it is rendered
    renderPc,       \* "ready", then the page family that was rendered
    renderPage,     \* the page: its parts in document order
    loadedShipments,\* shipments: what loadShipmentsFromGoogleSheets resolved to
    imagesOnDisk,   \* the image files that exist on disk
    fileSystem,     \* the output tree, with the mkdir and write calls of the last run
    fileSystemBefore,\* the output tree before the last run
    procScript,     \* the script the node process runs
    procEnv,        \* what the process finds: credentials, sheet, failing call
    procPc,         \* position of each promise chain of the process
    procTrace,      \* what the process logged, called and raised, in order
    procExit,       \* "running", then the exit status of the process
    crashScript,    \* the writer script that runs step by step
    crashSheet,     \* the rows of the sheet as the spreadsheet holds them
    crashBefore,    \* the rows of the sheet when the run started
    crashTodo,      \* what the loop of the run iterates over
    crashRun,       \* the row objects the run loaded, and what it has done
    crashStep,      \* the iteration the loop is at
    crashEdits,     \* the cells a human typed into during the run
    crashPc,        \* position of the interruptible writer run
    uploadTab,      \* the tab the full upload writes to
    uploadBefore,   \* the tab before the upload
    uploadShipments,\* the records parseCSV returned to the upload
    uploadExisting, \* existingRows of the upload
    uploadPc,       \* position of the full upload
    perfSheet,      \* the Performance Statistics sheet
    perfBefore,     \* the sheet before the last call
    perfVersion,    \* which updatePerformanceStatistic is called
    perfCall,       \* the arguments of the last call, and the call that failed in it
    perfLog,        \* what the last call logged
    perfCalls,      \* how many calls were made
    perfPc,         \* "ready", then how the last call ended
    treesPage,      \* what the template rendered the page from
    treesCount,     \* the [data-trees-sold] elements of the page
    treesLoading,   \* style.display of the .trees-sold-loading elements
    treesResponse,  \* what fetch settled with
    treesWarnings,  \* how many times the script called console.warn
    treesPc,        \* position of the trees-sold script and its promise chain
    blogCollection, \* the posts the blog service holds
    blogCarriesTotal,\* whether its responses carry pagingMetadata.total
    blogFailsAt,    \* the query that gets a response that is not ok, or 0
    allPosts,       \* allPosts of queryBlogPosts
    offset,         \* offset of queryBlogPosts
    blogQueries,    \* the paging of the queries made, in order
    blogLastPage,   \* posts of the last iteration
    blogPc,         \* position of queryBlogPosts
    menuDom,        \* attributes and classes of the header of a page
    menuClick,      \* the last click: its target and the width of the window
    menuPc          \* position of the menu script of the page

csvVars == <<csvSource, csvContent, csvPc, csvResult, csvRowsResult>>
coordVars == <<coordUrl, coordLat, coordLng, coordPc, coordResult, extractorCalls>>
mergeVars == <<oldRows, newRows, mergePc, mergeResult, mergedShipments>>
writerVars == <<sheetRows, sheetBefore, oldDataRows, newDataRows, scriptRuns,
                setCells, savedRows, addedRows>>

renderVars == <<renderRow, renderImages, renderPc, renderPage>>
pageVars == <<loadedShipments, imagesOnDisk, fileSystem, fileSystemBefore>>
procVars == <<procScript, procEnv, procPc, procTrace, procExit>>

crashVars == <<crashScript, crashSheet, crashBefore, crashTodo, crashRun, crashStep,
               crashEdits, crashPc>>
uploadVars == <<uploadTab, uploadBefore, uploadShipments, uploadExisting, uploadPc>>
perfVars == <<perfSheet, perfBefore, perfVersion, perfCall, perfLog, perfCalls, perfPc>>
treesVars == <<treesPage, treesCount, treesLoading, treesResponse, treesWarnings, treesPc>>
blogVars == <<blogCollection, blogCarriesTotal, blogFailsAt, allPosts, offset,
              blogQueries, blogLastPage, blogPc>>
menuVars == <<menuDom, menuClick, menuPc>>

\* The variables of the batch scripts run as a whole, and those of the models
\* that follow single steps.
batchVars == <<csvVars, coordVars, mergeVars, writerVars, renderVars, pageVars, procVars>>
stepVars == <<crashVars, uploadVars, perfVars, treesVars, blogVars, menuVars>>

vars == <<batchVars, stepVars>>

(***************************************************************************)
(* Bounds of the model.                                                    *)
(***************************************************************************)
MaxCsvLen == 6          \* longest raw CSV text enumerated
MaxFieldLen == 2        \* longest field value of a serialized record set
MaxUrlTokens == 3       \* most tokens a map URL is put together from
MaxRows == 2            \* most records of a record set merged with itself
MaxTotalRows == 3       \* most records of the two CSV exports together
MaxSheetRows == 2       \* most rows of the sheet before the first run
MaxOldCsvRows == 1      \* most records of the old CSV file the scripts read
MaxNewCsvRows == 2      \* most records of the new CSV file the scripts read
MaxRuns == 2            \* most script runs in a row
MaxFilled == 1          \* most columns filled in a rendered row, besides the two it always has
MaxFailures == 1        \* most calls that raise an exception in a run of a script
MaxRecords == 2         \* most records a run of a script processes
MaxEdits == 1           \* most cells a human types into during a run
MaxCalls == 2           \* most calls of updatePerformanceStatistic in a row
MaxPerfRows == 2        \* most data rows of the Performance Statistics sheet at the start

(***************************************************************************)
(* Strings.                                                                *)
(***************************************************************************)
QUOTE == "\""
COMMA == ","
LF == "\n"
CR == "\r"
SPACE == " "

EmptyString == <<>>

\* Body applied to the value of e. (TLC may evaluate a LET definition or an
\* operator argument anew at each use; a bound variable is evaluated once.)
Bind(e, Body(_)) == CHOOSE r \in {Body(x) : x \in {e}} : TRUE

\* The characters String.prototype.trim() removes (those the model uses).
WhiteSpace == {SPACE, LF, CR}

RECURSIVE TrimStart(_)
TrimStart(s) ==
    IF Len(s) > 0 /\ s[1] \in WhiteSpace THEN TrimStart(Tail(s)) ELSE s

RECURSIVE TrimEnd(_)
TrimEnd(s) ==
    IF Len(s) > 0 /\ s[Len(s)] \in WhiteSpace
        THEN TrimEnd(SubSeq(s, 1, Len(s) - 1))
        ELSE s

\* String.prototype.trim()
Trim(s) == TrimEnd(TrimStart(s))

\* f.trim() used as a condition: the trimmed string is non-empty.
TrimTruthy(s) == Trim(s) # EmptyString

\* .replace(/^"|"$/g, ''): one quote removed at the start, and one at the end
\* of what is left.
StripQuotes(s) ==
    LET s1 == IF Len(s) > 0 /\ s[1] = QUOTE THEN Tail(s) ELSE s
    IN  IF Len(s1) > 0 /\ s1[Len(s1)] = QUOTE
            THEN SubSeq(s1, 1, Len(s1) - 1)
            ELSE s1

\* The sequences over S of length at most n.
RECURSIVE SeqsUpTo(_, _)
SeqsUpTo(S, n) ==
    IF n = 0 THEN {<<>>}
    ELSE LET shorter == SeqsUpTo(S, n - 1)
         IN  shorter \cup {Append(s, c) : s \in shorter, c \in S}

\* currentRow.some(f => f.trim())
SomeFieldTruthy(row) == \E k \in 1..Len(row) : TrimTruthy(row[k])

(***************************************************************************)
(* parseCSV: the tokenizer loop.                                           *)
(***************************************************************************)
NoChar == "undefined"

\* The "Handle last field" block after the loop: the pending field and row are
\* emitted when the input did not end with a newline.
HandleLastField_FieldOnly(rows, currentRow, currentField) ==
    IF currentField # EmptyString
    THEN LET lastRow == Append(currentRow, currentField)
         IN  IF SomeFieldTruthy(lastRow) THEN Append(rows, lastRow) ELSE rows
    ELSE rows

HandleLastField(rows, currentRow, currentField) ==
    IF currentField # EmptyString \/ Len(currentRow) > 0
    THEN LET lastRow == Append(currentRow, currentField)
         IN  IF SomeFieldTruthy(lastRow) THEN Append(rows, lastRow) ELSE rows
    ELSE rows

\* One run of the while loop from index i (1-based) to the end of content,
\* followed by the "last field" block; returns rows.
RECURSIVE TokenizeCSV(_, _, _, _, _, _)
TokenizeCSV(content, i, rows, currentRow, currentField, inQuotes) ==
    IF i > Len(content)
    THEN HandleLastField(rows, currentRow, currentField)
    ELSE LET char == content[i]
             nextChar == IF i + 1 <= Len(content) THEN content[i + 1] ELSE NoChar
         IN  IF char = QUOTE
             THEN IF inQuotes /\ nextChar = QUOTE
                  THEN TokenizeCSV(content, i + 2, rows, currentRow,
                                   Append(currentField, QUOTE), inQuotes)
                  ELSE TokenizeCSV(content, i + 1, rows, currentRow,
                                   currentField, ~inQuotes)
             ELSE IF char = COMMA /\ ~inQuotes
             THEN TokenizeCSV(content, i + 1, rows,
                              Append(currentRow, currentField), EmptyString, inQuotes)
             ELSE IF (char = LF \/ char = CR) /\ ~inQuotes
             THEN LET next == IF char = CR /\ nextChar = LF THEN i + 2 ELSE i + 1
                      endedRow == Append(currentRow, currentField)
                      rows2 == IF Len(endedRow) > 0 /\ SomeFieldTruthy(endedRow)
                                   THEN Append(rows, endedRow)
                                   ELSE rows
                  IN  TokenizeCSV(content, next, rows2, <<>>, EmptyString, inQuotes)
             ELSE TokenizeCSV(content, i + 1, rows, currentRow,
                              Append(currentField, char), inQuotes)

csvRows(content) == TokenizeCSV(content, 1, <<>>, <<>>, EmptyString, FALSE)

\* headers = rows[0].map(h => h.replace(/^"|"$/g, '').trim())
csvHeaders(rows) == [k \in 1..Len(rows[1]) |-> Trim(StripQuotes(rows[1][k]))]

\* The object built by headers.forEach((header, idx) => row[header] = ...):
\* a later column with the same header overwrites an earlier one; a column the
\* row does not have reads as ''.
csvRowObject(headers, fields) ==
    [h \in {headers[k] : k \in 1..Len(headers)} |->
        LET idx == CHOOSE k \in 1..Len(headers) :
                       /\ headers[k] = h
                       /\ \A j \in 1..Len(headers) : headers[j] = h => j <= k
            raw == IF idx <= Len(fields) THEN fields[idx] ELSE EmptyString
        IN  Trim(StripQuotes(raw))]

csvDataRows(rows) ==
    [k \in 1..(Len(rows) - 1) |-> csvRowObject(csvHeaders(rows), rows[k + 1])]

\* parseCSV of merge-and-upload: { headers, dataRows }, or the empty array when
\* there are fewer than two rows.
parseCSV(content) ==
    LET rows == csvRows(content)
    IN  IF Len(rows) < 2
            THEN [kind |-> "array", items |-> <<>>]
            ELSE [kind |-> "object", headers |-> csvHeaders(rows),
                  dataRows |-> csvDataRows(rows)]

\* parseCSV of update-cacao-serialized-values and upload-shipments-to-sheets:
\* the array dataRows.
parseCSVRows(content) ==
    LET rows == csvRows(content)
    IN  IF Len(rows) < 2 THEN <<>> ELSE csvDataRows(rows)

(***************************************************************************)
(* Numbers. A JavaScript number is represented by the text toString() gives  *)
(* for it (its shortest decimal form), which is exact for the values of at   *)
(* most 15 significant digits that occur here; NaN is the text "NaN".        *)
(***************************************************************************)
Digits == {"0", "1", "2", "3", "4", "5", "6", "7", "8", "9"}

NaN == <<"N", "a", "N">>

\* The first index >= p of s that holds no digit (Len(s) + 1 if there is none).
RECURSIVE DigitsEnd(_, _)
DigitsEnd(s, p) ==
    IF p <= Len(s) /\ s[p] \in Digits THEN DigitsEnd(s, p + 1) ELSE p

RECURSIVE StripLeadingZeros(_)
StripLeadingZeros(d) ==
    IF Len(d) > 1 /\ d[1] = "0" THEN StripLeadingZeros(Tail(d)) ELSE d

RECURSIVE StripTrailingZeros(_)
StripTrailingZeros(d) ==
    IF Len(d) > 0 /\ d[Len(d)] = "0"
        THEN StripTrailingZeros(SubSeq(d, 1, Len(d) - 1))
        ELSE d

\* parseFloat(text).toString(): leading white space is skipped, then the longest
\* prefix  [+-]? digits [. digits]  with at least one digit is the number; what
\* follows it is ignored; without such a prefix the result is NaN.
parseFloatDigits(neg, intDigits, fracDigits) ==
    IF intDigits = <<>> /\ fracDigits = <<>>
    THEN NaN
    ELSE Bind(StripLeadingZeros(IF intDigits = <<>> THEN <<"0">> ELSE intDigits),
              LAMBDA int :
         Bind(StripTrailingZeros(fracDigits), LAMBDA frac :
              (IF neg /\ ~(int = <<"0">> /\ frac = <<>>) THEN <<"-">> ELSE <<>>)
              \o int
              \o (IF frac = <<>> THEN <<>> ELSE <<".">> \o frac)))

parseFloat(text) ==
    Bind(TrimStart(text), LAMBDA t :
    Bind(IF Len(t) > 0 /\ (t[1] = "-" \/ t[1] = "+") THEN 2 ELSE 1, LAMBDA p0 :
    Bind(DigitsEnd(t, p0), LAMBDA p1 :
         IF p1 <= Len(t) /\ t[p1] = "."
         THEN parseFloatDigits(Len(t) > 0 /\ t[1] = "-",
                               SubSeq(t, p0, p1 - 1),
                               SubSeq(t, p1 + 1, DigitsEnd(t, p1 + 1) - 1))
         ELSE parseFloatDigits(Len(t) > 0 /\ t[1] = "-",
                               SubSeq(t, p0, p1 - 1), <<>>))))

isNaN(x) == x = NaN

(***************************************************************************)
(* extractCoordinates: the three regular expressions.                      *)
(***************************************************************************)
\* The literal lit occurs in s at index p.
LiteralAt(s, p, lit) ==
    /\ p >= 1
    /\ p + Len(lit) - 1 <= Len(s)
    /\ SubSeq(s, p, p + Len(lit) - 1) = lit

\* (-?\d+\.?\d*) matched greedily at index p: the index after the match, or 0
\* when there is no match. Each group of the three patterns is followed by a
\* literal that starts with neither a digit nor a dot, or ends the pattern, so
\* backtracking into the group never finds another match.
NumberEnd(s, p) ==
    Bind(IF p <= Len(s) /\ s[p] = "-" THEN p + 1 ELSE p, LAMBDA q1 :
    Bind(DigitsEnd(s, q1), LAMBDA q2 :
         IF q2 = q1 THEN 0
         ELSE DigitsEnd(s, IF q2 <= Len(s) /\ s[q2] = "." THEN q2 + 1 ELSE q2)))

NoMatch == [index |-> 0, end |-> 0, g1 |-> <<>>, g2 |-> <<>>]

\* prefix (number) separator (number) matched at index p of s.
PairAt(s, p, prefix, separator) ==
    IF ~LiteralAt(s, p, prefix) THEN NoMatch
    ELSE Bind(NumberEnd(s, p + Len(prefix)), LAMBDA e1 :
         IF e1 = 0 \/ ~LiteralAt(s, e1, separator) THEN NoMatch
         ELSE Bind(NumberEnd(s, e1 + Len(separator)), LAMBDA e2 :
              IF e2 = 0 THEN NoMatch
              ELSE [index |-> p, end |-> e2,
                    g1 |-> SubSeq(s, p + Len(prefix), e1 - 1),
                    g2 |-> SubSeq(s, e1 + Len(separator), e2 - 1)]))

\* /3d(-?\d+\.?\d*)!4d(-?\d+\.?\d*)/ at index p
locationPatternAt(s, p) == PairAt(s, p, <<"3", "d">>, <<"!", "4", "d">>)

\* /@(-?\d+\.?\d*),(-?\d+\.?\d*)/ at index p
atPatternAt(s, p) == PairAt(s, p, <<"@">>, <<",">>)

\* /[?&]ll=(-?\d+\.?\d*),(-?\d+\.?\d*)/ at index p
llPatternAt(s, p) ==
    IF LiteralAt(s, p, <<"?">>)
        THEN PairAt(s, p, <<"?", "l", "l", "=">>, <<",">>)
        ELSE PairAt(s, p, <<"&", "l", "l", "=">>, <<",">>)

\* locationPattern.exec(mapUrl) with lastIndex = from: the leftmost match that
\* starts at or after from.
RECURSIVE locationPatternExec(_, _)
locationPatternExec(mapUrl, from) ==
    IF from > Len(mapUrl) THEN NoMatch
    ELSE Bind(locationPatternAt(mapUrl, from), LAMBDA m :
         IF m # NoMatch THEN m ELSE locationPatternExec(mapUrl, from + 1))

\* The first match instead of the last.
firstLocationMatch(mapUrl, lastIndex, lastMatch) == locationPatternExec(mapUrl, lastIndex)

\* while ((locationMatch = locationPattern.exec(mapUrl)) !== null)
\*     lastMatch = locationMatch;
RECURSIVE lastLocationMatch(_, _, _)
lastLocationMatch(mapUrl, lastIndex, lastMatch) ==
    Bind(locationPatternExec(mapUrl, lastIndex), LAMBDA locationMatch :
         IF locationMatch = NoMatch THEN lastMatch
         ELSE lastLocationMatch(mapUrl, locationMatch.end, locationMatch))

\* mapUrl.match(atPattern): the leftmost match
RECURSIVE atPatternMatch(_, _)
atPatternMatch(mapUrl, from) ==
    IF from > Len(mapUrl) THEN NoMatch
    ELSE Bind(atPatternAt(mapUrl, from), LAMBDA m :
         IF m # NoMatch THEN m ELSE atPatternMatch(mapUrl, from + 1))

\* mapUrl.match(llPattern): the leftmost match
RECURSIVE llPatternMatch(_, _)
llPatternMatch(mapUrl, from) ==
    IF from > Len(mapUrl) THEN NoMatch
    ELSE Bind(llPatternAt(mapUrl, from), LAMBDA m :
         IF m # NoMatch THEN m ELSE llPatternMatch(mapUrl, from + 1))

null == [isNull |-> TRUE]

Coordinates(m) == [isNull |-> FALSE, lat |-> parseFloat(m.g1), lng |-> parseFloat(m.g2)]

extractCoordinates(mapUrl) ==
    IF mapUrl = EmptyString THEN null
    ELSE Bind(lastLocationMatch(mapUrl, 1, NoMatch), LAMBDA lastMatch :
         IF lastMatch # NoMatch THEN Coordinates(lastMatch)
         ELSE Bind(atPatternMatch(mapUrl, 1), LAMBDA atMatch :
              IF atMatch # NoMatch THEN Coordinates(atMatch)
              ELSE Bind(llPatternMatch(mapUrl, 1), LAMBDA llMatch :
                   IF llMatch # NoMatch THEN Coordinates(llMatch)
                   ELSE null)))

(***************************************************************************)
(* Rows and shipments. A sheet row and a CSV shipment are functions from    *)
(* column or field names to strings; a name that is absent reads as         *)
(* undefined, which every reader turns into '' with  || ''.                 *)
(***************************************************************************)
\* row.get(key) || ''   and   shipment.key || ''
getValue(obj, key) == IF key \in DOMAIN obj THEN obj[key] ELSE EmptyString

\* mapSheetRowToShipment (generate-shipment-pages): the coordinates of the
\* shipment, taken from the Latitude and Longitude cells when both are
\* non-empty and parse as numbers, from the Google Maps URL otherwise.
sheetRowExplicitCoordinates(row) ==
    Bind(getValue(row, "Latitude"), LAMBDA latStr :
    Bind(getValue(row, "Longitude"), LAMBDA lngStr :
         IF latStr # EmptyString /\ lngStr # EmptyString
         THEN Bind(parseFloat(latStr), LAMBDA lat :
              Bind(parseFloat(lngStr), LAMBDA lng :
                   IF ~isNaN(lat) /\ ~isNaN(lng)
                       THEN [isNull |-> FALSE, lat |-> lat, lng |-> lng]
                       ELSE null))
         ELSE null))

\* if (!coordinates && googleMapUrl): the fallback calls extractCoordinates.
sheetRowUsesExtractor(row) ==
    /\ sheetRowExplicitCoordinates(row) = null
    /\ getValue(row, "Google Maps URL") # EmptyString

\* The pair taken from the URL whatever the cells hold.
sheetRowCoordinatesFromUrl(row) == extractCoordinates(getValue(row, "Google Maps URL"))

sheetRowCoordinates(row) ==
    Bind(sheetRowExplicitCoordinates(row), LAMBDA coordinates :
         IF coordinates = null /\ getValue(row, "Google Maps URL") # EmptyString
             THEN extractCoordinates(getValue(row, "Google Maps URL"))
             ELSE coordinates)

mapSheetRowToShipment(row) ==
    [shipment_contract_number |-> getValue(row, "Shipment ID"),
     shipment_date |-> getValue(row, "Shipment Date"),
     shipment_status |-> getValue(row, "Status"),
     shipment_description |-> getValue(row, "Description"),
     cargo_size |-> getValue(row, "Cargo Size"),
     cacao_kg |-> getValue(row, "Cacao (kg)"),
     transaction_type |-> getValue(row, "Transaction Type"),
     investment_roi |-> getValue(row, "Investment ROI"),
     capital_injection |-> getValue(row, "Capital Injection"),
     total_revenue |-> getValue(row, "Total Revenue"),
     ledger_url |-> getValue(row, "Ledger URL"),
     contract_url |-> getValue(row, "Contract URL"),
     fda_prior_notice |-> getValue(row, "FDA Prior Notice"),
     shipment_invoice_url |-> getValue(row, "Invoice URL"),
     purchase_order_url |-> getValue(row, "Purchase Order URL"),
     lab_report |-> getValue(row, "Lab Report"),
     video_reel |-> getValue(row, "Video Reel"),
     truesight_dao_shipment_url |-> getValue(row, "TrueSight DAO URL"),
     trees_to_be_planted |-> getValue(row, "Trees to be Planted"),
     google_map_url |-> getValue(row, "Google Maps URL"),
     coordinates |-> sheetRowCoordinates(row),
     shipment_image |-> getValue(row, "Shipment Image"),
     is_cacao_shipment |-> getValue(row, "Is Cacao Shipment"),
     serialized |-> getValue(row, "Serialized")]

\* The columns of "Shipment Ledger Listing" the model keeps (of the 27 the
\* scripts write): the identifier, two plain columns, the map columns and the
\* two flag columns.
Headers == <<"Shipment ID", "Status", "Cacao (kg)", "Google Maps URL",
             "Latitude", "Longitude", "Is Cacao Shipment", "Serialized">>

HeaderSet == {Headers[k] : k \in 1..Len(Headers)}

\* mapShipmentToRow (merge-and-upload, upload-shipments-to-sheets): the new row
\* data of a CSV shipment; Latitude and Longitude always come from the URL.
mapShipmentRowData(shipment, googleMapUrl, coordinates) ==
    ("Shipment ID" :> getValue(shipment, "shipment_contract_number"))
    @@ ("Status" :> getValue(shipment, "shipment_status"))
    @@ ("Cacao (kg)" :> IF getValue(shipment, "cacao_kg") # EmptyString
                            THEN getValue(shipment, "cacao_kg")
                            ELSE getValue(shipment, "cargo_size"))
    @@ ("Google Maps URL" :> googleMapUrl)
    @@ ("Latitude" :> IF coordinates = null THEN EmptyString ELSE coordinates.lat)
    @@ ("Longitude" :> IF coordinates = null THEN EmptyString ELSE coordinates.lng)
    @@ ("Is Cacao Shipment" :> getValue(shipment, "is_cacao_shipment"))
    @@ ("Serialized" :> getValue(shipment, "serialized"))

mapShipmentToRow(shipment) ==
    Bind(getValue(shipment, "google_map_url"), LAMBDA googleMapUrl :
    Bind(extractCoordinates(googleMapUrl), LAMBDA coordinates :
         mapShipmentRowData(shipment, googleMapUrl, coordinates)))

(***************************************************************************)
(* Map URLs and coordinate cells the coordinate operations are applied to. *)
(***************************************************************************)
Marker1 == <<"3", "d", "1", "!", "4", "d", "-", "2", ".", "5">>
Marker2 == <<"3", "d", "7", ".", "!", "4", "d", "1", "!">>
At1 == <<"@", "-", "2", ".", "5", ",", "1">>
At2 == <<"@", "0", "8", ",", "7", ".">>
Ll1 == <<"?", "l", "l", "=", "1", ",", "-", "2", ".", "5">>
Ll2 == <<"&", "l", "l", "=", "7", ".", ",", "0", "8">>

UrlTokens ==
    {Marker1, Marker2, At1, At2, Ll1, Ll2,
     <<"!">>, <<"1">>, <<"3", "d">>, <<"!", "4", "d">>, <<"@">>,
     <<"l", "l", "=", "1", ",", "1">>}

RECURSIVE Concat(_)
Concat(tokens) == IF tokens = <<>> THEN <<>> ELSE tokens[1] \o Concat(Tail(tokens))

MapUrls(n) == {Concat(t) : t \in SeqsUpTo(UrlTokens, n)}

\* What a Latitude or Longitude cell may hold.
CoordinateCells == {EmptyString, <<"4">>, <<"-", "2", ".", "5">>, <<"x">>, <<"4", "x">>}

(***************************************************************************)
(* CSV texts handed to the parser.                                         *)
(***************************************************************************)
CsvAlphabet == {"a", "b", COMMA, QUOTE, LF}

\* Texts with line feeds only, and shorter texts with carriage returns too.
RawCsvTexts ==
    SeqsUpTo(CsvAlphabet, MaxCsvLen) \cup SeqsUpTo(CsvAlphabet \cup {CR}, MaxCsvLen - 2)

\* A record set written as CSV: a header row of field names, then the records.
FieldAlphabet == {"a", COMMA, QUOTE, LF, SPACE}
FieldValues == SeqsUpTo(FieldAlphabet, MaxFieldLen)

SourceTables ==
    {[headers |-> <<<<"i">>, <<"v">>>>, records |-> <<<<<<"k">>, v>>>>] :
        v \in FieldValues}
    \cup
    {[headers |-> <<<<"i">>, <<"v">>>>,
      records |-> <<<<<<"k">>, v>>, <<<<"m">>, w>>>>] :
        v \in FieldValues, w \in {<<>>, <<"a">>}}

RECURSIVE EscapeQuotes(_)
EscapeQuotes(s) ==
    IF s = <<>> THEN <<>>
    ELSE (IF s[1] = QUOTE THEN <<QUOTE, QUOTE>> ELSE <<s[1]>>) \o EscapeQuotes(Tail(s))

\* RFC 4180: a field is enclosed in double quotes, and its quotes doubled.
WriteField(s) == <<QUOTE>> \o EscapeQuotes(s) \o <<QUOTE>>

RECURSIVE WriteRow(_)
WriteRow(fields) ==
    IF Len(fields) = 1 THEN WriteField(fields[1])
    ELSE WriteField(fields[1]) \o <<COMMA>> \o WriteRow(Tail(fields))

RECURSIVE WriteRows(_)
WriteRows(rows) ==
    IF rows = <<>> THEN <<>>
    ELSE WriteRow(rows[1]) \o <<LF>> \o WriteRows(Tail(rows))

\* The text was not written from a record set.
NoSource == [headers |-> <<>>, records |-> <<>>]

WriteCSV(table) == WriteRows(<<table.headers>> \o table.records)

(***************************************************************************)
(* Specification of the parser: a text is chosen and parsed.               *)
(***************************************************************************)
CsvInit ==
    /\ \/ /\ csvSource = NoSource
          /\ csvContent \in RawCsvTexts
       \/ /\ csvSource \in SourceTables
          /\ csvContent = WriteCSV(csvSource)
    /\ csvPc = "ready"
    /\ csvResult = [kind |-> "none"]
    /\ csvRowsResult = <<>>

ParseCSV ==
    /\ csvPc = "ready"
    /\ csvResult' = parseCSV(csvContent)
    /\ csvRowsResult' = parseCSVRows(csvContent)
    /\ csvPc' = "parsed"
    /\ UNCHANGED <<csvSource, csvContent>>
    /\ UNCHANGED <<coordVars, mergeVars, writerVars, renderVars, pageVars, procVars, stepVars>>

\* mergeAndUpload, right after the two parseCSV calls: the console.log lines
\* read oldData.dataRows.length and oldData.headers.length. On the empty array
\* parseCSV returns for fewer than two rows, oldData.dataRows is undefined and
\* reading its length throws a TypeError.
dataRowsIsUndefined(data) == data.kind # "object"

LogCsvCounts ==
    /\ csvPc = "parsed"
    /\ csvPc' = IF dataRowsIsUndefined(csvResult) THEN "TypeError" ELSE "logged"
    /\ UNCHANGED <<csvSource, csvContent, csvResult, csvRowsResult>>
    /\ UNCHANGED <<coordVars, mergeVars, writerVars, renderVars, pageVars, procVars, stepVars>>

CsvIdle ==
    /\ csvSource = NoSource
    /\ csvContent = EmptyString
    /\ csvPc = "idle"
    /\ csvResult = [kind |-> "none"]
    /\ csvRowsResult = <<>>

(***************************************************************************)
(* Specification of the coordinate operations: a row (or shipment) with a  *)
(* map URL and explicit coordinate values is chosen, and one of the three  *)
(* operations is applied to it.                                            *)
(***************************************************************************)
CoordInit ==
    /\ \/ /\ coordUrl \in MapUrls(MaxUrlTokens)
          /\ coordLat = EmptyString
          /\ coordLng = EmptyString
       \/ /\ coordUrl \in MapUrls(MaxUrlTokens - 2)
          /\ coordLat \in CoordinateCells
          /\ coordLng \in CoordinateCells
    /\ coordPc = "ready"
    /\ coordResult = null
    /\ extractorCalls = 0

\* extractCoordinates(mapUrl)
ExtractCoordinates ==
    /\ coordPc = "ready"
    /\ coordResult' = extractCoordinates(coordUrl)
    /\ extractorCalls' = 1
    /\ coordPc' = "extractCoordinates"
    /\ UNCHANGED <<coordUrl, coordLat, coordLng>>
    /\ UNCHANGED <<csvVars, mergeVars, writerVars, renderVars, pageVars, procVars, stepVars>>

CoordSheetRow ==
    ("Google Maps URL" :> coordUrl) @@ ("Latitude" :> coordLat) @@ ("Longitude" :> coordLng)

\* mapSheetRowToShipment(row) of the page generator
MapSheetRowToShipment ==
    /\ coordPc = "ready"
    /\ coordResult' = mapSheetRowToShipment(CoordSheetRow).coordinates
    /\ extractorCalls' = IF sheetRowUsesExtractor(CoordSheetRow) THEN 1 ELSE 0
    /\ coordPc' = "mapSheetRowToShipment"
    /\ UNCHANGED <<coordUrl, coordLat, coordLng>>
    /\ UNCHANGED <<csvVars, mergeVars, writerVars, renderVars, pageVars, procVars, stepVars>>

CoordShipment ==
    ("google_map_url" :> coordUrl) @@ ("Latitude" :> coordLat) @@ ("Longitude" :> coordLng)

\* mapShipmentToRow(shipment) of the reconciler
MapShipmentToRow ==
    /\ coordPc = "ready"
    /\ \E row \in {mapShipmentToRow(CoordShipment)} :
           coordResult' = IF row["Latitude"] = EmptyString /\ row["Longitude"] = EmptyString
                              THEN null
                              ELSE [isNull |-> FALSE, lat |-> row["Latitude"],
                                    lng |-> row["Longitude"]]
    /\ extractorCalls' = 1
    /\ coordPc' = "mapShipmentToRow"
    /\ UNCHANGED <<coordUrl, coordLat, coordLng>>
    /\ UNCHANGED <<csvVars, mergeVars, writerVars, renderVars, pageVars, procVars, stepVars>>

CoordIdle ==
    /\ coordUrl = EmptyString
    /\ coordLat = EmptyString
    /\ coordLng = EmptyString
    /\ coordPc = "idle"
    /\ coordResult = null
    /\ extractorCalls = 0

(***************************************************************************)
(* mergeShipments and the keyed merge of merge-and-upload.                 *)
(***************************************************************************)
LowerLetters == <<"a", "b", "c", "d", "e", "f", "g", "h", "i", "j", "k", "l", "m",
                  "n", "o", "p", "q", "r", "s", "t", "u", "v", "w", "x", "y", "z">>
UpperLetters == <<"A", "B", "C", "D", "E", "F", "G", "H", "I", "J", "K", "L", "M",
                  "N", "O", "P", "Q", "R", "S", "T", "U", "V", "W", "X", "Y", "Z">>

toUpperCaseChar(c) ==
    IF \E k \in 1..Len(LowerLetters) : LowerLetters[k] = c
        THEN UpperLetters[CHOOSE k \in 1..Len(LowerLetters) : LowerLetters[k] = c]
        ELSE c

toUpperCase(s) == [k \in 1..Len(s) |-> toUpperCaseChar(s[k])]

\* The fields for which the old (base) value has precedence.
MapFields == {"google_map_url", "google_map_image"}

\* The default rule applied to every key, map fields included.
mergedValueNewFirst(key, oldVal, newVal) ==
    IF TrimTruthy(newVal) THEN newVal
    ELSE IF TrimTruthy(oldVal) THEN oldVal
    ELSE EmptyString

\* The body of allKeys.forEach: the value merged[key] receives.
mergedValue(key, oldVal, newVal) ==
    IF key = "google_map_url" \/ key = "google_map_image"
        THEN IF oldVal # EmptyString /\ TrimTruthy(oldVal) THEN oldVal
             ELSE IF newVal # EmptyString /\ TrimTruthy(newVal) THEN newVal
             ELSE EmptyString
        ELSE IF newVal # EmptyString /\ TrimTruthy(newVal) THEN newVal
             ELSE IF oldVal # EmptyString /\ TrimTruthy(oldVal) THEN oldVal
             ELSE EmptyString

\* merged = { ...oldShipment }, then every key of either record is assigned.
mergeShipments(oldShipment, newShipment) ==
    [key \in (DOMAIN oldShipment) \cup (DOMAIN newShipment) |->
        mergedValue(key, getValue(oldShipment, key), getValue(newShipment, key))]

\* (shipment.shipment_contract_number || '') without upper-casing.
shipmentKeyVerbatim(shipment) == getValue(shipment, "shipment_contract_number")

\* (shipment.shipment_contract_number || '').toUpperCase()
shipmentKey(shipment) == toUpperCase(getValue(shipment, "shipment_contract_number"))

\* A Map is the sequence of its entries [key, value] in insertion order.
MapIndex(map, key) ==
    IF \E k \in 1..Len(map) : map[k].key = key
        THEN CHOOSE k \in 1..Len(map) : map[k].key = key
        ELSE 0

MapHas(map, key) == MapIndex(map, key) # 0

MapGet(map, key) == map[MapIndex(map, key)].value

\* An entry appended whether or not the key is present.
MapAppend(map, key, value) == Append(map, [key |-> key, value |-> value])

\* Map.prototype.set: a present key keeps its position and gets the value.
MapSet(map, key, value) ==
    IF MapHas(map, key)
        THEN [map EXCEPT ![MapIndex(map, key)] = [key |-> key, value |-> value]]
        ELSE Append(map, [key |-> key, value |-> value])

MapValues(map) == [k \in 1..Len(map) |-> map[k].value]

\* oldData.dataRows.forEach(...) from index i on: every record with a key is
\* set under its key.
RECURSIVE addOldShipments(_, _, _)
addOldShipments(shipmentMap, dataRows, i) ==
    IF i > Len(dataRows) THEN shipmentMap
    ELSE Bind(shipmentKey(dataRows[i]), LAMBDA key :
         Bind(IF key # EmptyString
                  THEN MapSet(shipmentMap, key, dataRows[i])
                  ELSE shipmentMap,
              LAMBDA nextMap : addOldShipments(nextMap, dataRows, i + 1)))

\* newData.dataRows.forEach(...) from index i on: a record whose key is present
\* is merged into the entry, any other record with a key is set under its key.
RECURSIVE mergeNewShipments(_, _, _)
mergeNewShipments(shipmentMap, dataRows, i) ==
    IF i > Len(dataRows) THEN shipmentMap
    ELSE Bind(shipmentKey(dataRows[i]), LAMBDA key :
         Bind(IF key = EmptyString THEN shipmentMap
              ELSE IF MapHas(shipmentMap, key)
                  THEN MapSet(shipmentMap, key,
                              mergeShipments(MapGet(shipmentMap, key), dataRows[i]))
                  ELSE MapSet(shipmentMap, key, dataRows[i]),
              LAMBDA nextMap : mergeNewShipments(nextMap, dataRows, i + 1)))

\* const mergedShipments = Array.from(shipmentMap.values())
mergeDataRows(oldData, newData) ==
    Bind(addOldShipments(<<>>, oldData, 1), LAMBDA oldMap :
         MapValues(mergeNewShipments(oldMap, newData, 1)))

(***************************************************************************)
(* Records the merge operations are applied to. Every value is one that    *)
(* parseCSV can return: it has no white space at either end; and each      *)
(* export has at least one record, as mergeAndUpload throws otherwise.     *)
(***************************************************************************)
IdValues == {EmptyString, <<"a">>, <<"A">>, <<"b">>}
StatusValues == {EmptyString, <<"x">>}
UrlValues == {EmptyString, <<"u">>}

Shipment(id, status, url) ==
    ("shipment_contract_number" :> id) @@ ("shipment_status" :> status)
    @@ ("google_map_url" :> url)

Shipments ==
    {Shipment(id, status, url) : id \in IdValues, status \in StatusValues,
                                 url \in UrlValues}

\* Records of two exports whose columns differ: any subset of four fields.
PairFields == {"shipment_contract_number", "shipment_status",
               "google_map_url", "google_map_image"}

PairValues(field) ==
    IF field = "shipment_contract_number"
        THEN {<<"a">>, <<"b">>}
        ELSE {EmptyString, <<"x">>, <<"y">>}

PairRecords ==
    UNION {{r \in [F -> {EmptyString, <<"x">>, <<"y">>, <<"a">>, <<"b">>}] :
                \A field \in F : r[field] \in PairValues(field)} :
           F \in SUBSET PairFields}

NoShipment == [k \in {} |-> EmptyString]

MergeInit ==
    /\ \/ /\ oldRows \in {<<r>> : r \in PairRecords}
          /\ newRows \in {<<r>> : r \in PairRecords}
       \/ /\ oldRows \in SeqsUpTo(Shipments, MaxTotalRows - 1) \ {<<>>}
          /\ newRows \in SeqsUpTo(Shipments, MaxTotalRows - Len(oldRows)) \ {<<>>}
       \/ /\ oldRows \in SeqsUpTo(Shipments, MaxRows) \ {<<>>}
          /\ newRows = oldRows
    /\ mergePc = "ready"
    /\ mergeResult = NoShipment
    /\ mergedShipments = <<>>

\* mergeShipments(existing, shipment) on the first record of each export
MergeShipments ==
    /\ mergePc = "ready"
    /\ Len(oldRows) >= 1
    /\ Len(newRows) >= 1
    /\ mergeResult' = mergeShipments(oldRows[1], newRows[1])
    /\ mergePc' = "mergeShipments"
    /\ UNCHANGED <<oldRows, newRows, mergedShipments>>
    /\ UNCHANGED <<csvVars, coordVars, writerVars, renderVars, pageVars, procVars, stepVars>>

\* The keyed merge of merge-and-upload: shipmentMap is filled from the old
\* records, merged with the new ones, and its values are collected.
MergeDataRows ==
    /\ mergePc = "ready"
    /\ mergedShipments' = mergeDataRows(oldRows, newRows)
    /\ mergePc' = "merged"
    /\ UNCHANGED <<oldRows, newRows, mergeResult>>
    /\ UNCHANGED <<csvVars, coordVars, writerVars, renderVars, pageVars, procVars, stepVars>>

MergeIdle ==
    /\ oldRows = <<>>
    /\ newRows = <<>>
    /\ mergePc = "idle"
    /\ mergeResult = NoShipment
    /\ mergedShipments = <<>>

(***************************************************************************)
(* The scripts that write the sheet: merge-and-upload (mergeAndUpload),    *)
(* the force update of the two flag columns (updateValues) and             *)
(* update-coordinates-from-urls (updateCoordinates).                       *)
(***************************************************************************)
\* !currentValue || currentValue.trim() === ''
IsBlank(value) == value = EmptyString \/ Trim(value) = EmptyString

\* newValue && newValue.trim() !== ''
IsFilled(value) == value # EmptyString /\ Trim(value) # EmptyString

\* (row.get('Shipment ID') || '') without upper-casing.
rowKeyVerbatim(row) == getValue(row, "Shipment ID")

\* (row.get('Shipment ID') || '').toUpperCase()
rowKey(row) == toUpperCase(getValue(row, "Shipment ID"))

\* A cell policy that writes every non-blank new value.
shouldSetCellAlways(key, currentValue, newValue) == IsFilled(newValue)

\* The two branches of the loop over Object.entries(newRowData) in
\* mergeAndUpload: whether existingRow.set(key, newValue) is called.
shouldSetCell(key, currentValue, newValue) ==
    IF (key = "Is Cacao Shipment" \/ key = "Serialized") /\ IsFilled(newValue)
        THEN IsBlank(currentValue)
        ELSE IsBlank(currentValue) /\ IsFilled(newValue)

\* A flag policy that fills only a blank cell.
shouldSetFlagIfBlank(currentValue, newValue) ==
    IsBlank(currentValue) /\ IsFilled(newValue)

\* updateValues: whether row.set is called for a flag column.
shouldSetFlag(currentValue, newValue) == IsFilled(newValue)

\* existingRows.forEach(...): the Map from upper-cased Shipment ID to the row
\* (its index in the sheet); a later row with the same key replaces an earlier.
RECURSIVE existingShipmentsMap(_, _, _)
existingShipmentsMap(map, existingRows, i) ==
    IF i > Len(existingRows) THEN map
    ELSE Bind(rowKey(existingRows[i]), LAMBDA shipmentId :
         Bind(IF shipmentId # EmptyString THEN MapSet(map, shipmentId, i) ELSE map,
              LAMBDA nextMap : existingShipmentsMap(nextMap, existingRows, i + 1)))

\* rows.find(r => (r.get('Shipment ID') || '').toUpperCase() === shipmentId):
\* the index of the first such row, 0 when there is none.
findRow(rows, shipmentId) ==
    IF \E k \in 1..Len(rows) : rowKey(rows[k]) = shipmentId
        THEN CHOOSE k \in 1..Len(rows) :
                 /\ rowKey(rows[k]) = shipmentId
                 /\ \A j \in 1..(k - 1) : rowKey(rows[j]) # shipmentId
        ELSE 0

\* The state of a run: the rows of the sheet and what the run has done.
RunStart(rows) == [rows |-> rows, set |-> {}, saved |-> 0, added |-> 0]

\* The cells of row index that receive a value, as <<index, column, value>>.
mergeSets(index, row, newRowData) ==
    {<<index, key, newRowData[key]>> : key \in
        {h \in DOMAIN newRowData : shouldSetCell(h, getValue(row, h), newRowData[h])}}

\* row after row.set(column, value) for every <<index, column, value>> of sets
rowAfterSets(index, row, sets) ==
    [h \in (DOMAIN row) \cup {t[2] : t \in sets} |->
        IF \E t \in sets : t[2] = h
            THEN (CHOOSE t \in sets : t[2] = h)[3]
            ELSE row[h]]

\* The sets applied to row index, and the row saved when there is any.
runAfterSets(run, index, sets) ==
    IF sets = {} THEN run
    ELSE [rows |-> [run.rows EXCEPT ![index] = rowAfterSets(index, run.rows[index], sets)],
          set |-> run.set \cup sets,
          saved |-> run.saved + 1,
          added |-> run.added]

\* One iteration of  for (const shipment of mergedShipments)  in mergeAndUpload
mergeUploadShipment(run, existingMap, shipment) ==
    Bind(shipmentKey(shipment), LAMBDA shipmentId :
         IF shipmentId = EmptyString THEN run
         ELSE Bind(mapShipmentToRow(shipment), LAMBDA newRowData :
              IF MapHas(existingMap, shipmentId)
                  THEN Bind(MapGet(existingMap, shipmentId), LAMBDA index :
                            runAfterSets(run, index,
                                         mergeSets(index, run.rows[index], newRowData)))
                  ELSE [run EXCEPT !.rows = Append(run.rows, newRowData),
                                   !.added = run.added + 1]))

RECURSIVE mergeUploadLoop(_, _, _, _)
mergeUploadLoop(run, existingMap, shipments, i) ==
    IF i > Len(shipments) THEN run
    ELSE Bind(mergeUploadShipment(run, existingMap, shipments[i]), LAMBDA nextRun :
              mergeUploadLoop(nextRun, existingMap, shipments, i + 1))

\* mergeAndUpload on a sheet that has the headers. Reading oldData.dataRows of
\* a CSV with fewer than two rows throws before the sheet is touched.
mergeAndUpload(rows, oldData, newData) ==
    IF Len(oldData) = 0 \/ Len(newData) = 0 THEN RunStart(rows)
    ELSE mergeUploadLoop(RunStart(rows), existingShipmentsMap(<<>>, rows, 1),
                         mergeDataRows(oldData, newData), 1)

\* if (value && value.trim() !== '') row.set(column, value)
flagSet(index, column, currentValue, newValue) ==
    IF shouldSetFlag(currentValue, newValue) THEN {<<index, column, newValue>>} ELSE {}

\* The row.set calls of one csvShipment in updateValues.
flagSets(index, row, csvShipment) ==
    flagSet(index, "Is Cacao Shipment", getValue(row, "Is Cacao Shipment"),
            getValue(csvShipment, "is_cacao_shipment"))
    \cup flagSet(index, "Serialized", getValue(row, "Serialized"),
                 getValue(csvShipment, "serialized"))

\* One iteration of  for (const csvShipment of shipments)  in updateValues
updateValuesShipment(run, csvShipment) ==
    Bind(shipmentKey(csvShipment), LAMBDA shipmentId :
         IF shipmentId = EmptyString THEN run
         ELSE Bind(findRow(run.rows, shipmentId), LAMBDA index :
              IF index = 0 THEN run
              ELSE runAfterSets(run, index,
                                flagSets(index, run.rows[index], csvShipment))))

RECURSIVE updateValuesLoop(_, _, _)
updateValuesLoop(run, shipments, i) ==
    IF i > Len(shipments) THEN run
    ELSE Bind(updateValuesShipment(run, shipments[i]), LAMBDA nextRun :
              updateValuesLoop(nextRun, shipments, i + 1))

\* A loop that ends at the first record the sheet has no row for.
updateValuesUntilNotFound(rows, shipments) ==
    Bind({k \in 1..Len(shipments) :
              /\ shipmentKey(shipments[k]) # EmptyString
              /\ findRow(rows, shipmentKey(shipments[k])) = 0}, LAMBDA missing :
         updateValuesLoop(RunStart(rows),
                          SubSeq(shipments, 1,
                                 IF missing = {} THEN Len(shipments)
                                 ELSE (CHOOSE k \in missing : \A j \in missing : k <= j) - 1),
                          1))

\* updateValues: shipments is the array parseCSV returned for the new CSV.
updateValues(rows, shipments) == updateValuesLoop(RunStart(rows), shipments, 1)

\* if (!current || current.trim() === '') row.set(column, value)
blankSet(index, column, currentValue, newValue) ==
    IF IsBlank(currentValue) THEN {<<index, column, newValue>>} ELSE {}

\* The row.set calls of one entry of shipmentUpdates in updateCoordinates.
coordinateSets(index, row, update, coordinates) ==
    blankSet(index, "Google Maps URL", getValue(row, "Google Maps URL"),
             update.googleMapUrl)
    \cup (IF coordinates = null THEN {}
          ELSE blankSet(index, "Latitude", getValue(row, "Latitude"), coordinates.lat)
               \cup blankSet(index, "Longitude", getValue(row, "Longitude"),
                             coordinates.lng))

\* One iteration of  for (const update of shipmentUpdates)
updateCoordinatesEntry(run, update) ==
    Bind(findRow(run.rows, toUpperCase(update.id)), LAMBDA index :
         IF index = 0 THEN run
         ELSE Bind(extractCoordinates(update.googleMapUrl), LAMBDA coordinates :
              runAfterSets(run, index,
                           coordinateSets(index, run.rows[index], update, coordinates))))

RECURSIVE updateCoordinatesLoop(_, _, _)
updateCoordinatesLoop(run, updates, i) ==
    IF i > Len(updates) THEN run
    ELSE Bind(updateCoordinatesEntry(run, updates[i]), LAMBDA nextRun :
              updateCoordinatesLoop(nextRun, updates, i + 1))

\* shipmentUpdates: entries of the table with the identifiers of the model;
\* as in the table, each URL has a viewport pair and one or two markers.
shipmentUpdates ==
    <<[id |-> <<"A">>, googleMapUrl |-> At1 \o <<"/">> \o Marker1],
      [id |-> <<"B">>, googleMapUrl |-> At2 \o Marker2 \o <<"!">> \o Marker1]>>

updateCoordinates(rows) == updateCoordinatesLoop(RunStart(rows), shipmentUpdates, 1)

(***************************************************************************)
(* Sheets and CSV records the scripts are run on.                          *)
(***************************************************************************)
SheetRow(id, status, cacao, url, lat, lng, isCacao, serialized) ==
    ("Shipment ID" :> id) @@ ("Status" :> status) @@ ("Cacao (kg)" :> cacao)
    @@ ("Google Maps URL" :> url) @@ ("Latitude" :> lat) @@ ("Longitude" :> lng)
    @@ ("Is Cacao Shipment" :> isCacao) @@ ("Serialized" :> serialized)

\* A cell edited by hand, and a cell that holds white space only.
Manual == <<"m">>
Spaces == <<SPACE>>

\* Rows of the sheet: every cell blank, every cell edited, every cell white
\* space, and a row with some cells edited and the others empty.
SheetRowsOf(id) ==
    {SheetRow(id, EmptyString, EmptyString, EmptyString, EmptyString, EmptyString,
              EmptyString, EmptyString),
     SheetRow(id, Manual, Manual, Manual, <<"4">>, <<"4">>, Manual, Manual),
     SheetRow(id, Spaces, Spaces, Spaces, Spaces, Spaces, Spaces, Spaces),
     SheetRow(id, Manual, EmptyString, EmptyString, <<"4">>, EmptyString,
              EmptyString, <<"N">>)}

SheetIds == {<<"a">>, <<"A">>}

Sheets == SeqsUpTo(UNION {SheetRowsOf(id) : id \in SheetIds}, MaxSheetRows)

CsvShipment(id, status, cacao, url, isCacao, serialized) ==
    ("shipment_contract_number" :> id) @@ ("shipment_status" :> status)
    @@ ("cacao_kg" :> cacao) @@ ("google_map_url" :> url)
    @@ ("is_cacao_shipment" :> isCacao) @@ ("serialized" :> serialized)

\* Records of a CSV file: one with every field filled and one with most
\* fields empty, under each identifier and under no identifier.
CsvShipmentsOf(id) ==
    {CsvShipment(id, <<"x">>, <<"5">>, Marker1, <<"Y">>, <<"Y">>),
     CsvShipment(id, EmptyString, EmptyString, EmptyString, <<"N">>, EmptyString)}

CsvShipmentIds == {EmptyString, <<"a">>, <<"b">>}

CsvShipments == UNION {CsvShipmentsOf(id) : id \in CsvShipmentIds}

WriterInit ==
    /\ sheetRows \in Sheets
    /\ sheetBefore = sheetRows
    /\ oldDataRows \in SeqsUpTo(CsvShipments, MaxOldCsvRows)
    /\ newDataRows \in SeqsUpTo(CsvShipments, MaxNewCsvRows)
    /\ scriptRuns = <<>>
    /\ setCells = {}
    /\ savedRows = 0
    /\ addedRows = 0

\* What a run leaves behind.
RunDone(script, run) ==
    /\ sheetBefore' = sheetRows
    /\ sheetRows' = run.rows
    /\ setCells' = run.set
    /\ savedRows' = run.saved
    /\ addedRows' = run.added
    /\ scriptRuns' = Append(scriptRuns, script)
    /\ UNCHANGED <<oldDataRows, newDataRows>>
    /\ UNCHANGED <<csvVars, coordVars, mergeVars, renderVars, pageVars, procVars, stepVars>>

\* node scripts/merge-and-upload
MergeAndUpload ==
    /\ Len(scriptRuns) < MaxRuns
    /\ \E run \in {mergeAndUpload(sheetRows, oldDataRows, newDataRows)} :
           RunDone("mergeAndUpload", run)

\* node scripts/update-cacao-serialized-values
UpdateValues ==
    /\ Len(scriptRuns) < MaxRuns
    /\ \E run \in {updateValues(sheetRows, newDataRows)} :
           RunDone("updateValues", run)

\* node scripts/update-coordinates-from-urls
UpdateCoordinates ==
    /\ Len(scriptRuns) < MaxRuns
    /\ \E run \in {updateCoordinates(sheetRows)} :
           RunDone("updateCoordinates", run)

WriterIdle ==
    /\ sheetRows = <<>>
    /\ sheetBefore = <<>>
    /\ oldDataRows = <<>>
    /\ newDataRows = <<>>
    /\ scriptRuns = <<>>
    /\ setCells = {}
    /\ savedRows = 0
    /\ addedRows = 0

(***************************************************************************)
(* Text helpers of the page generator (generate-shipment-pages): lower     *)
(* case, the regular expressions of escapeHtml and stripHtmlAndClean, and  *)
(* the entity replacements.                                                *)
(***************************************************************************)
toLowerCaseChar(c) ==
    IF \E k \in 1..Len(UpperLetters) : UpperLetters[k] = c
        THEN LowerLetters[CHOOSE k \in 1..Len(UpperLetters) : UpperLetters[k] = c]
        ELSE c

toLowerCase(s) == [k \in 1..Len(s) |-> toLowerCaseChar(s[k])]

\* The elements the regular expressions are put together from: a literal, a
\* literal under the i flag (given in lower case and matched without regard to
\* case), an optional literal (lit)?, one character of a class, and a greedy
\* run [^...]* of characters outside a class.
Lit(s) == [t |-> "lit", s |-> s]
LitI(s) == [t |-> "liti", s |-> s]
Opt(s) == [t |-> "opt", s |-> s]
One(class) == [t |-> "one", of |-> class]
Star(class) == [t |-> "star", not |-> class]

GT == {">"}
QuoteOrGT == {QUOTE, "'", ">"}
Quotes == {QUOTE, "'"}

\* The index of the first character at or after i that is in class, or
\* Len(s) + 1: where a run [^class]* that starts at i ends at the latest.
RunEnd(s, i, class) ==
    CHOOSE e \in i..(Len(s) + 1) :
        /\ e > Len(s) \/ s[e] \in class
        /\ \A j \in i..(e - 1) : s[j] \notin class

\* The index after the match of pat[k], pat[k+1], ... at index i of s, or 0
\* when they do not match there. A run is tried longest first, as the
\* backtracking matcher does.
RECURSIVE MatchEnd(_, _, _, _)
MatchEnd(pat, k, s, i) ==
    IF k > Len(pat) THEN i
    ELSE IF pat[k].t = "lit"
    THEN IF /\ i + Len(pat[k].s) - 1 <= Len(s)
            /\ SubSeq(s, i, i + Len(pat[k].s) - 1) = pat[k].s
             THEN MatchEnd(pat, k + 1, s, i + Len(pat[k].s))
             ELSE 0
    ELSE IF pat[k].t = "liti"
    THEN IF /\ i + Len(pat[k].s) - 1 <= Len(s)
            /\ toLowerCase(SubSeq(s, i, i + Len(pat[k].s) - 1)) = pat[k].s
             THEN MatchEnd(pat, k + 1, s, i + Len(pat[k].s))
             ELSE 0
    ELSE IF pat[k].t = "opt"
    THEN Bind(IF /\ i + Len(pat[k].s) - 1 <= Len(s)
                 /\ SubSeq(s, i, i + Len(pat[k].s) - 1) = pat[k].s
                  THEN MatchEnd(pat, k + 1, s, i + Len(pat[k].s))
                  ELSE 0,
              LAMBDA e : IF e # 0 THEN e ELSE MatchEnd(pat, k + 1, s, i))
    ELSE IF pat[k].t = "one"
    THEN IF i <= Len(s) /\ s[i] \in pat[k].of
             THEN MatchEnd(pat, k + 1, s, i + 1)
             ELSE 0
    ELSE Bind({j \in i..RunEnd(s, i, pat[k].not) : MatchEnd(pat, k + 1, s, j) # 0},
              LAMBDA ends :
                  IF ends = {} THEN 0
                  ELSE MatchEnd(pat, k + 1, s,
                                CHOOSE j \in ends : \A j2 \in ends : j2 <= j))

\* The indices from i on at which pat matches (none of the patterns matches
\* the empty string).
MatchStarts(s, pat, i) == {j \in i..Len(s) : MatchEnd(pat, 1, s, j) > j}

\* The leftmost of them, or 0 when there is none.
FirstMatch(s, pat, i) ==
    Bind(MatchStarts(s, pat, i), LAMBDA starts :
         IF starts = {} THEN 0 ELSE CHOOSE j \in starts : \A j2 \in starts : j <= j2)

\* s.replace(/pat/g, rep): the matches are found from left to right in s, each
\* search starting where the previous match ended.
RECURSIVE replaceFrom(_, _, _, _, _)
replaceFrom(s, pat, rep, i, out) ==
    Bind(FirstMatch(s, pat, i), LAMBDA j :
         IF j = 0 THEN out \o SubSeq(s, i, Len(s))
         ELSE replaceFrom(s, pat, rep, MatchEnd(pat, 1, s, j),
                          out \o SubSeq(s, i, j - 1) \o rep))

replace(s, pat, rep) == Bind(s, LAMBDA text : replaceFrom(text, pat, rep, 1, <<>>))

\* The ten patterns escapeHtml and stripHtmlAndClean remove, in order.
linkCss2Pattern ==
    <<LitI(<<"<", "l", "i", "n", "k">>), Star(GT),
      LitI(<<"c", "s", "s", "2", "?">>), Star(GT), LitI(<<">">>)>>
linkFamilyPattern ==
    <<LitI(<<"<", "l", "i", "n", "k">>), Star(GT),
      LitI(<<"f", "a", "m", "i", "l", "y", "=">>), Star(GT), LitI(<<">">>)>>
brokenLinkPattern ==
    <<LitI(<<"f", "a", "m", "i", "l", "y", "=">>), Star(QuoteOrGT),
      LitI(<<"d", "i", "s", "p", "l", "a", "y", "=", "s", "w", "a", "p">>), Star(QuoteOrGT),
      LitI(<<"r", "e", "l", "=">>), One(Quotes),
      LitI(<<"s", "t", "y", "l", "e", "s", "h", "e", "e", "t">>), One(Quotes),
      Star(GT), LitI(<<">">>)>>
brokenFontPattern ==
    <<LitI(<<"f", "a", "m", "i", "l", "y", "=">>), Star(QuoteOrGT),
      LitI(<<"w", "g", "h", "t", "@">>), Star(QuoteOrGT),
      LitI(<<"d", "i", "s", "p", "l", "a", "y">>), Star(QuoteOrGT), LitI(<<">">>)>>
linkPattern ==
    <<LitI(<<"<", "l", "i", "n", "k">>), Star(GT), LitI(<<">">>)>>
googleapisPattern ==
    <<LitI(<<"f", "o", "n", "t", "s", ".", "g", "o", "o", "g", "l", "e", "a", "p", "i", "s",
            ".", "c", "o", "m">>), Star(QuoteOrGT)>>
css2Pattern ==
    <<LitI(<<"c", "s", "s", "2", "?">>), Star(QuoteOrGT)>>
playfairPattern ==
    <<LitI(<<"p", "l", "a", "y", "f", "a", "i", "r", "+", "d", "i", "s", "p", "l", "a", "y">>),
      Star(QuoteOrGT)>>
openSansPattern ==
    <<LitI(<<"o", "p", "e", "n", "+", "s", "a", "n", "s">>), Star(QuoteOrGT)>>
tagPattern ==
    <<Lit(<<"<">>), Star(GT), Lit(<<">">>)>>

removedPatterns ==
    <<linkCss2Pattern, linkFamilyPattern, brokenLinkPattern, brokenFontPattern,
      linkPattern, googleapisPattern, css2Pattern, playfairPattern, openSansPattern,
      tagPattern>>

\* The chain of .replace(pattern, '') calls both helpers start with.
RECURSIVE removeFragments(_, _)
removeFragments(text, k) ==
    IF k > Len(removedPatterns) THEN text
    ELSE Bind(replace(text, removedPatterns[k], <<>>), LAMBDA cleaned :
              removeFragments(cleaned, k + 1))

AMP == <<"&", "a", "m", "p", ";">>
LTE == <<"&", "l", "t", ";">>
GTE == <<"&", "g", "t", ";">>
QUOT == <<"&", "q", "u", "o", "t", ";">>
APOS == <<"&", "#", "3", "9", ";">>
NBSP == <<"&", "n", "b", "s", "p", ";">>

\* The five .replace calls that escape the HTML entities.
escapeEntities(cleaned) ==
    replace(replace(replace(replace(replace(cleaned,
        <<Lit(<<"&">>)>>, AMP),
        <<Lit(<<"<">>)>>, LTE),
        <<Lit(<<">">>)>>, GTE),
        <<Lit(<<QUOTE>>)>>, QUOT),
        <<Lit(<<"'">>)>>, APOS)

\* escapeHtml(text)
escapeHtml(text) ==
    IF text = EmptyString THEN EmptyString
    ELSE escapeEntities(removeFragments(text, 1))

\* cleaned.replace(/\s+/g, ' '): every run of white space becomes one space.
collapseWhiteSpace(s) ==
    Bind(s, LAMBDA text :
         SelectSeq([k \in 1..Len(text) |->
                        IF text[k] \notin WhiteSpace THEN text[k]
                        ELSE IF k > 1 /\ text[k - 1] \in WhiteSpace THEN "" ELSE SPACE],
                   LAMBDA c : c # ""))

\* The entity decoding of stripHtmlAndClean.
decodeEntities(cleaned) ==
    replace(replace(replace(replace(replace(replace(cleaned,
        <<Lit(NBSP)>>, <<SPACE>>),
        <<Lit(AMP)>>, <<"&">>),
        <<Lit(LTE)>>, <<"<">>),
        <<Lit(GTE)>>, <<">">>),
        <<Lit(QUOT)>>, <<QUOTE>>),
        <<Lit(APOS)>>, <<"'">>)

\* The two .replace calls that escape the quotes for an attribute.
escapeAttributeQuotes(cleaned) ==
    replace(replace(cleaned, <<Lit(<<QUOTE>>)>>, QUOT), <<Lit(<<"'">>)>>, APOS)

\* stripHtmlAndClean(text)
stripHtmlAndClean(text) ==
    IF text = EmptyString THEN EmptyString
    ELSE Bind(collapseWhiteSpace(decodeEntities(removeFragments(text, 1))),
              LAMBDA collapsed : escapeAttributeQuotes(Trim(collapsed)))

\* text.substring(0, n)
substring0(text, n) ==
    Bind(text, LAMBDA t : IF Len(t) <= n THEN t ELSE SubSeq(t, 1, n))

(***************************************************************************)
(* The page generator (generate-shipment-pages): the two page templates.   *)
(* A page is the sequence of its parts in document order: the values the   *)
(* template inserts, each with the position it is inserted at (element     *)
(* content, attribute value, inline script), and the fixed markup of the   *)
(* template that the claims speak about, by name.                          *)
(***************************************************************************)
\* The character U+00B7 of the page titles.
MIDDOT == "middot"

\* The literals of the templates.
baseUrl ==
    <<"h", "t", "t", "p", "s", ":", "/", "/", "w", "w", "w", ".", "t", "r", "u", "e",
      "s", "i", "g", "h", "t", ".", "m", "e">>
logoPath ==
    <<"/", "a", "s", "s", "e", "t", "s", "/", "t", "r", "u", "e", "s", "i", "g", "h",
      "t", "-", "l", "o", "g", "o", ".", "p", "n", "g">>
siteName ==
    <<"T", "r", "u", "e", "S", "i", "g", "h", "t", " ", "D", "A", "O">>
invalidDate ==
    <<"I", "n", "v", "a", "l", "i", "d", " ", "D", "a", "t", "e">>
shipmentsPath ==
    <<"a", "s", "s", "e", "t", "s", "/", "s", "h", "i", "p", "m", "e", "n", "t", "s",
      "/">>
githubRawUrl ==
    <<"h", "t", "t", "p", "s", ":", "/", "/", "r", "a", "w", ".", "g", "i", "t", "h",
      "u", "b", "u", "s", "e", "r", "c", "o", "n", "t", "e", "n", "t", ".", "c",
      "o", "m", "/", "T", "r", "u", "e", "S", "i", "g", "h", "t", "D", "A", "O",
      "/", "t", "r", "u", "e", "s", "i", "g", "h", "t", "_", "m", "e", "/", "m",
      "a", "i", "n", "/">>
agroverseTitleSuffix ==
    <<" ", MIDDOT, " ", "A", "g", "r", "o", "v", "e", "r", "s", "e", " ", "S", "h",
      "i", "p", "m", "e", "n", "t", " ", "|", " ", "T", "r", "u", "e", "S", "i",
      "g", "h", "t", " ", "D", "A", "O">>
sunmintTitleSuffix ==
    <<" ", MIDDOT, " ", "S", "u", "n", "m", "i", "n", "t", " ", "T", "r", "e", "e",
      "-", "P", "l", "a", "n", "t", "i", "n", "g", " ", "P", "l", "e", "d", "g",
      "e", " ", "|", " ", "T", "r", "u", "e", "S", "i", "g", "h", "t", " ", "D",
      "A", "O">>
agroverseUrlPath ==
    <<"/", "a", "g", "r", "o", "v", "e", "r", "s", "e", "-", "s", "h", "i", "p", "m",
      "e", "n", "t", "s", "/">>
sunmintUrlPath ==
    <<"/", "s", "u", "n", "m", "i", "n", "t", "-", "t", "r", "e", "e", "-", "p", "l",
      "a", "n", "t", "i", "n", "g", "-", "p", "l", "e", "d", "g", "e", "s", "/">>
truesightHost ==
    <<"t", "r", "u", "e", "s", "i", "g", "h", "t", ".", "m", "e">>
agroverseShopHost ==
    <<"a", "g", "r", "o", "v", "e", "r", "s", "e", ".", "s", "h", "o", "p">>

Markup(name) == [kind |-> "markup", name |-> name, text |-> EmptyString]
Body(slot, text) == [kind |-> "body", name |-> slot, text |-> text]
Attr(slot, text) == [kind |-> "attr", name |-> slot, text |-> text]
Script(slot, text) == [kind |-> "script", name |-> slot, text |-> text]

\* ${cond ? `...` : ''}
Optional(cond, parts) == IF cond THEN parts ELSE <<>>

\* s.includes(lit)
includes(s, lit) == \E p \in 1..Len(s) : LiteralAt(s, p, lit)

\* s.startsWith(lit)
startsWith(s, lit) == LiteralAt(s, 1, lit)

\* s.replace(/pat/, rep) without the g flag: the leftmost match only.
replaceFirst(s, pat, rep) ==
    Bind(FirstMatch(s, pat, 1), LAMBDA j :
         IF j = 0 THEN s
         ELSE SubSeq(s, 1, j - 1) \o rep \o SubSeq(s, MatchEnd(pat, 1, s, j), Len(s)))

\* /https?:\/\/(www\.)?truesight\.me/
truesightPattern ==
    <<Lit(<<"h", "t", "t", "p">>), Opt(<<"s">>), Lit(<<":", "/", "/">>), Opt(<<"w", "w", "w", ".">>), Lit(truesightHost)>>

\* "Convert absolute truesight.me URLs to relative paths"
relativeTruesightUrl(url) ==
    IF url # EmptyString /\ includes(url, truesightHost)
        THEN replaceFirst(url, truesightPattern, EmptyString)
        ELSE url

\* ledgerUrl && ledgerUrl.includes('agroverse.shop') ? ledgerUrl : ''
shopUrlOf(ledgerUrl) ==
    IF ledgerUrl # EmptyString /\ includes(ledgerUrl, agroverseShopHost)
        THEN ledgerUrl
        ELSE EmptyString

\* formatDate(dateStr) on the date cells of the model: an empty cell gives '',
\* and a cell new Date() cannot parse gives what toLocaleDateString returns for
\* an invalid date.
formatDate(dateStr) ==
    IF dateStr = EmptyString THEN EmptyString ELSE invalidDate

\* getImagePath(shipmentNumber)
getImagePath(shipmentNumber) ==
    Bind(toLowerCase(shipmentNumber), LAMBDA lower :
         shipmentsPath \o lower \o <<".">>
         \o (IF lower = <<"a", "g", "l", "7">> THEN <<"g", "i", "f">> ELSE <<"a", "v", "i", "f">>))


\* generateMetaTags({ title, description, imageUrl, url, type: 'article' })
generateMetaTags(title, description, imageUrl, url) ==
    Bind(IF url # EmptyString THEN baseUrl \o url ELSE baseUrl, LAMBDA fullUrl :
    Bind(IF imageUrl # EmptyString
             THEN (IF startsWith(imageUrl, <<"h", "t", "t", "p">>) THEN imageUrl
                   ELSE baseUrl \o <<"/">> \o imageUrl)
             ELSE baseUrl \o logoPath, LAMBDA fullImageUrl :
    Bind(substring0(stripHtmlAndClean(description), 200), LAMBDA cleanDescription :
         <<Attr("og:type", <<"a", "r", "t", "i", "c", "l", "e">>),
           Attr("og:url", fullUrl),
           Attr("og:title", title),
           Attr("og:description", cleanDescription),
           Attr("og:image", fullImageUrl),
           Attr("og:site_name", siteName),
           Attr("twitter:url", fullUrl),
           Attr("twitter:title", title),
           Attr("twitter:description", cleanDescription),
           Attr("twitter:image", fullImageUrl)>>)))

\* fs.existsSync(path.join(__dirname, `../${imagePath}`)), imageFiles being the
\* image paths that exist on disk.
imageExists(imageFiles, imagePath) == imagePath \in imageFiles

\* shipmentNumber.replace(/[^a-zA-Z0-9]/g, '')
alphanumeric(s) ==
    SelectSeq(s, LAMBDA c : \/ c \in Digits
                            \/ \E k \in 1..Len(LowerLetters) :
                                   c = LowerLetters[k] \/ c = UpperLetters[k])

\* text.replace(/'/g, "\\'")
escapeApostrophes(text) == replace(text, <<Lit(<<"'">>)>>, <<"\\", "'">>)

\* text.replace(/\n/g, '<br>')
lineBreaks(text) == replace(text, <<Lit(<<LF>>)>>, <<"<", "b", "r", ">">>)

\* The "Trees to be Planted" block of the page header and the row of the same
\* name in the overview.
treesParts(name, title, treesToBePlanted) ==
    Optional(treesToBePlanted # EmptyString,
        <<Markup(name),
          Attr("data-shipment-id", toLowerCase(title)),
          Body("treesToBePlanted", treesToBePlanted)>>)

\* The <img> of the shipment, present when its file exists.
imageParts(imageFiles, imagePath, title) ==
    Optional(imageExists(imageFiles, imagePath),
        <<Markup("img"),
          Attr("src", <<".", ".", "/", ".", ".", "/">> \o imagePath),
          Attr("alt", title)>>)

\* The "Location" block: the heading, the map container when there are
\* coordinates, the link when there is a URL.
locationParts(shipmentNumber, coordinates, googleMapUrl) ==
    Optional(coordinates # null \/ googleMapUrl # EmptyString,
        <<Markup("h3 Location")>>
        \o Optional(coordinates # null,
               <<Markup("div map"), Attr("id", <<"m", "a", "p", "-">> \o toLowerCase(shipmentNumber))>>)
        \o Optional(googleMapUrl # EmptyString,
               <<Markup("a View on Google Maps"), Attr("href", googleMapUrl)>>))

\* The "Additional Resources" block.
resourcesParts(truesightDaoShipmentUrl) ==
    Optional(truesightDaoShipmentUrl # EmptyString,
        <<Markup("h3 Additional Resources"),
          Attr("href", truesightDaoShipmentUrl)>>)

\* The inline script that sets up the Leaflet map, present when there are
\* coordinates.
mapScriptParts(shipmentNumber, title, coordinates, googleMapUrl) ==
    Optional(coordinates # null,
        <<Markup("script initMap"),
          Script("map variable", alphanumeric(shipmentNumber)),
          Script("map id", toLowerCase(shipmentNumber)),
          Script("lat", coordinates.lat),
          Script("lng", coordinates.lng),
          Script("popup title", escapeApostrophes(title)),
          Script("popup href", escapeApostrophes(googleMapUrl))>>)

\* shipment.coordinates || extractCoordinates(googleMapUrl)
pageCoordinates(shipment, googleMapUrl) ==
    IF "coordinates" \in DOMAIN shipment /\ shipment["coordinates"] # null
        THEN shipment["coordinates"]
        ELSE extractCoordinates(googleMapUrl)

\* The head of a page: the title, the description and the meta tags.
headParts(pageTitle, description, shipmentImageUrl, pageUrl) ==
    <<Body("title", pageTitle),
      Attr("description", substring0(stripHtmlAndClean(description), 160))>>
    \o generateMetaTags(pageTitle, description, shipmentImageUrl, pageUrl)

\* The rows of the overview list both templates have.
overviewRow(name, slot, value) ==
    Optional(value # EmptyString, <<Markup(name), Body(slot, value)>>)

linkRow(name, url) ==
    Optional(url # EmptyString, <<Markup(name), Attr("href", url)>>)

\* generateAgroverseShipmentPage(shipment)
generateAgroverseShipmentPage(shipment, imageFiles) ==
    Bind(getValue(shipment, "shipment_contract_number"), LAMBDA title :
    Bind(getValue(shipment, "shipment_description"), LAMBDA description :
    Bind(getValue(shipment, "google_map_url"), LAMBDA googleMapUrl :
    Bind(pageCoordinates(shipment, googleMapUrl), LAMBDA coordinates :
    Bind(getImagePath(title), LAMBDA imagePath :
        headParts(title \o agroverseTitleSuffix, description,
                  IF getValue(shipment, "shipment_image") # EmptyString
                      THEN getValue(shipment, "shipment_image")
                      ELSE githubRawUrl \o imagePath,
                  agroverseUrlPath \o toLowerCase(title))
        \o <<Markup("header"), Body("h1", title)>>
        \o treesParts("div Trees to be Planted", title,
                      getValue(shipment, "trees_to_be_planted"))
        \o imageParts(imageFiles, imagePath, title)
        \o <<Body("h2", title),
             Markup("h3 Shipment Description"),
             Body("description", lineBreaks(escapeHtml(description))),
             Markup("h3 Shipment Overview"),
             Markup("dt Shipment Title"), Body("title", title)>>
        \o overviewRow("dt Status", "status", getValue(shipment, "shipment_status"))
        \o overviewRow("dt Farm Shipment Date", "date",
                       formatDate(getValue(shipment, "shipment_date")))
        \o overviewRow("dt Cacao in kg.", "cacaoKg",
                       IF getValue(shipment, "cacao_kg") # EmptyString
                           THEN getValue(shipment, "cacao_kg")
                           ELSE getValue(shipment, "cargo_size"))
        \o treesParts("dt Trees to be Planted", title,
                      getValue(shipment, "trees_to_be_planted"))
        \o linkRow("dt Transparency Ledger", shopUrlOf(getValue(shipment, "ledger_url")))
        \o <<Markup("h3 Financing")>>
        \o overviewRow("dt Funding approach", "financing",
                       getValue(shipment, "transaction_type"))
        \o linkRow("dt Financing Contract", getValue(shipment, "contract_url"))
        \o overviewRow("dt Capital Returns", "roi", getValue(shipment, "investment_roi"))
        \o <<Markup("h3 Documents")>>
        \o linkRow("li Farmer's Invoice", getValue(shipment, "shipment_invoice_url"))
        \o linkRow("li FDA prior Notice", getValue(shipment, "fda_prior_notice"))
        \o linkRow("li Purchase Order", getValue(shipment, "purchase_order_url"))
        \o linkRow("li Lab Report", getValue(shipment, "lab_report"))
        \o linkRow("h3 Video", getValue(shipment, "video_reel"))
        \o locationParts(title, coordinates, googleMapUrl)
        \o resourcesParts(relativeTruesightUrl(
               getValue(shipment, "truesight_dao_shipment_url")))
        \o <<Markup("footer")>>
        \o mapScriptParts(title, title, coordinates, googleMapUrl))))))

\* generateSunmintImpactPage(shipment)
generateSunmintImpactPage(shipment, imageFiles) ==
    Bind(getValue(shipment, "shipment_contract_number"), LAMBDA title :
    Bind(getValue(shipment, "shipment_description"), LAMBDA description :
    Bind(getValue(shipment, "google_map_url"), LAMBDA googleMapUrl :
    Bind(pageCoordinates(shipment, googleMapUrl), LAMBDA coordinates :
    Bind(getImagePath(title), LAMBDA imagePath :
        headParts(title \o sunmintTitleSuffix, description,
                  IF getValue(shipment, "shipment_image") # EmptyString
                      THEN getValue(shipment, "shipment_image")
                      ELSE githubRawUrl \o imagePath,
                  sunmintUrlPath \o toLowerCase(title))
        \o <<Markup("header"), Body("h1", title)>>
        \o treesParts("div Trees to be Planted", title,
                      getValue(shipment, "trees_to_be_planted"))
        \o imageParts(imageFiles, imagePath, title)
        \o <<Body("h2", title),
             Markup("h3 PLEDGE Overview"),
             Markup("dt PLEDGE TITLE"), Body("title", title)>>
        \o overviewRow("dt Status", "status", getValue(shipment, "shipment_status"))
        \o overviewRow("dt PLEDGE START Date", "date",
                       formatDate(getValue(shipment, "shipment_date")))
        \o treesParts("dt Trees to be Planted", title,
                      getValue(shipment, "trees_to_be_planted"))
        \o linkRow("dt Transparency Ledger", shopUrlOf(getValue(shipment, "ledger_url")))
        \o <<Markup("h3 PLEDGE DETAILS"),
             Body("description", lineBreaks(description))>>
        \o locationParts(title, coordinates, googleMapUrl)
        \o resourcesParts(relativeTruesightUrl(
               getValue(shipment, "truesight_dao_shipment_url")))
        \o <<Markup("footer")>>
        \o mapScriptParts(title, title, coordinates, googleMapUrl))))))

(***************************************************************************)
(* generatePages: the routing of the shipments to the two page families    *)
(* and the files written. The file system is a record of the directories   *)
(* that exist, the files with their content, and the mkdirSync and         *)
(* writeFileSync calls of the run in call order.                           *)
(***************************************************************************)
agroverseDir == "agroverse-shipments"
sunmintDir == "sunmint-tree-planting-pledges"

\* The comparison without the lower-casing.
flagIsTruthyCaseSensitive(value) ==
    \/ value = <<"t", "r", "u", "e">>
    \/ value = <<"y", "e", "s">>
    \/ value = <<"1">>
    \/ value = <<"y">>

\* (s.flag || '').toString().toLowerCase() compared with 'true', 'yes', '1', 'y'
flagIsTruthy(value) ==
    Bind(toLowerCase(value), LAMBDA flag :
         \/ flag = <<"t", "r", "u", "e">>
         \/ flag = <<"y", "e", "s">>
         \/ flag = <<"1">>
         \/ flag = <<"y">>)

\* shipments.filter(s => ... is_cacao_shipment ...)
agroverseShipments(shipments) ==
    SelectSeq(shipments, LAMBDA s : flagIsTruthy(getValue(s, "is_cacao_shipment")))

\* shipments.filter(s => ... serialized ...)
sunmintShipments(shipments) ==
    SelectSeq(shipments, LAMBDA s : flagIsTruthy(getValue(s, "serialized")))

\* path.join(familyDir, shipment.shipment_contract_number.toLowerCase())
shipmentDir(familyDir, shipment) ==
    [root |-> familyDir, name |-> toLowerCase(shipment.shipment_contract_number)]

\* path.join(shipmentDir, 'index.html')
indexPath(dir) == [root |-> dir.root, name |-> dir.name, file |-> "index.html"]

\* if (!fs.existsSync(shipmentDir)) fs.mkdirSync(shipmentDir, { recursive: true })
mkdirIfAbsent(fs, dir) ==
    IF dir \in fs.dirs THEN fs
    ELSE [fs EXCEPT !.dirs = @ \cup {dir}, !.mkdirs = Append(@, dir)]

\* A write that keeps what the file held and adds the new content after it.
appendFileSync(fs, filePath, html) ==
    [dirs |-> fs.dirs,
     mkdirs |-> fs.mkdirs,
     files |-> (filePath :> (IF filePath \in DOMAIN fs.files
                                 THEN fs.files[filePath] \o html
                                 ELSE html)) @@ fs.files,
     writes |-> Append(fs.writes, [path |-> filePath, html |-> html])]

\* fs.writeFileSync(filePath, html): the file holds html and nothing else.
writeFileSync(fs, filePath, html) ==
    [dirs |-> fs.dirs,
     mkdirs |-> fs.mkdirs,
     files |-> (filePath :> html) @@ fs.files,
     writes |-> Append(fs.writes, [path |-> filePath, html |-> html])]

\* The body of the two forEach loops.
writePage(fs, familyDir, shipment, html) ==
    Bind(shipmentDir(familyDir, shipment), LAMBDA dir :
         writeFileSync(mkdirIfAbsent(fs, dir), indexPath(dir), html))

\* agroverseShipments.forEach(...)
RECURSIVE writeAgroversePages(_, _, _, _)
writeAgroversePages(fs, routed, imageFiles, k) ==
    IF k > Len(routed) THEN fs
    ELSE Bind(routed[k], LAMBDA shipment :
         Bind(generateAgroverseShipmentPage(shipment, imageFiles), LAMBDA html :
         Bind(writePage(fs, agroverseDir, shipment, html), LAMBDA written :
              writeAgroversePages(written, routed, imageFiles, k + 1))))

\* sunmintShipments.forEach(...)
RECURSIVE writeSunmintPages(_, _, _, _)
writeSunmintPages(fs, routed, imageFiles, k) ==
    IF k > Len(routed) THEN fs
    ELSE Bind(routed[k], LAMBDA shipment :
         Bind(generateSunmintImpactPage(shipment, imageFiles), LAMBDA html :
         Bind(writePage(fs, sunmintDir, shipment, html), LAMBDA written :
              writeSunmintPages(written, routed, imageFiles, k + 1))))

\* generatePages(): the two filters, then the two loops.
generatePages(shipments, fs, imageFiles) ==
    Bind(agroverseShipments(shipments), LAMBDA agroverse :
    Bind(sunmintShipments(shipments), LAMBDA sunmint :
    Bind(writeAgroversePages(fs, agroverse, imageFiles, 1), LAMBDA written :
         writeSunmintPages(written, sunmint, imageFiles, 1))))

\* rows.map(row => mapSheetRowToShipment(row))
loadShipments(rows) == [k \in 1..Len(rows) |-> mapSheetRowToShipment(rows[k])]

(***************************************************************************)
(* Specification of the page templates: one row of the sheet is mapped to  *)
(* a shipment and rendered as a page of one of the two families.           *)
(***************************************************************************)
\* A stray stylesheet link of the font service, as found in descriptions.
LinkFragment ==
    <<"<", "l", "i", "n", "k", " ", "h", "r", "e", "f", "=", QUOTE, "x", "/", "c", "s",
      "s", "2", "?", "f", "a", "m", "i", "l", "y", "=", "X", "&", "d", "i", "s",
      "p", "l", "a", "y", "=", "s", "w", "a", "p", QUOTE, " ", "r", "e", "l", "=",
      QUOTE, "s", "t", "y", "l", "e", "s", "h", "e", "e", "t", QUOTE, ">">>
\* The same with the attributes in the other order and in upper case.
UpperLinkFragment ==
    <<"<", "L", "I", "N", "K", " ", "R", "E", "L", "=", "'", "s", "t", "y", "l", "e",
      "s", "h", "e", "e", "t", "'", " ", "H", "R", "E", "F", "=", "'", "x", "?",
      "f", "a", "m", "i", "l", "y", "=", "X", "&", "d", "i", "s", "p", "l", "a",
      "y", "=", "s", "w", "a", "p", "'", ">">>
\* A fragment of a font-service URL.
FontUrlFragment ==
    <<"f", "o", "n", "t", "s", ".", "g", "o", "o", "g", "l", "e", "a", "p", "i", "s",
      ".", "c", "o", "m", "/", "c", "s", "s", "2", "?", "f", "a", "m", "i", "l",
      "y", "=", "X">>

\* Text without markup that descriptions hold around a fragment.
PlainTexts == {EmptyString, <<"t">>, <<"t", SPACE, "&", SPACE, "u">>}

\* Text that follows a fragment.
AfterTexts == {<<"u">>, <<QUOTE, "u">>}

Fragments == {LinkFragment, UpperLinkFragment, FontUrlFragment}

\* Descriptions: plain text, text with the characters HTML gives a meaning
\* to, and text of two lines.
ShortDescriptions ==
    {EmptyString, <<"t">>, <<"a", "&", "b">>, <<"<", "b", ">", "t", "<", "/", "b", ">">>,
     <<"1", "<", "2">>, <<"'", "t", QUOTE>>, <<"t", LF, "u">>}

\* Descriptions with a fragment in them.
FragmentDescriptions ==
    {before \o fragment \o after :
         before \in PlainTexts, fragment \in Fragments, after \in AfterTexts}

\* What the other cells of a row hold: a plain value, and values with the
\* characters HTML gives a meaning to.
CellTexts == {<<"m">>, <<"<", "i", ">">>, <<QUOTE, ">", "&", "'">>}

\* The columns of the sheet a page shows, besides the identifier and the
\* description.
PageColumns ==
    {"Status", "Shipment Date", "Cargo Size", "Cacao (kg)", "Transaction Type",
     "Investment ROI", "Ledger URL", "Contract URL", "FDA Prior Notice", "Invoice URL",
     "Purchase Order URL", "Lab Report", "Video Reel", "TrueSight DAO URL",
     "Trees to be Planted", "Google Maps URL", "Shipment Image"}

\* What a cell of a column may hold.
CellValues(column) ==
    CASE column = "Google Maps URL" -> CellTexts \cup {Marker1}
      [] column = "Ledger URL" -> CellTexts \cup {agroverseShopHost \o <<QUOTE, ">">>}
      [] column = "TrueSight DAO URL" -> CellTexts \cup {truesightHost \o <<"/", "<">>}
      [] OTHER -> CellTexts

RenderIds == {<<"A">>, <<"a", "<", "7">>}

\* The rows with the given columns filled in.
RECURSIVE RowsWith(_, _)
RowsWith(row, columns) ==
    IF columns = {} THEN {row}
    ELSE Bind(CHOOSE c \in columns : TRUE, LAMBDA column :
              UNION {RowsWith((column :> value) @@ row, columns \ {column}) :
                         value \in CellValues(column)})

\* Rows of the sheet: an identifier, a short description, and at most
\* MaxFilled of the other columns filled in; or a description with a fragment
\* in it; or explicit coordinates.
RenderRows ==
    UNION {RowsWith(("Shipment ID" :> id) @@ ("Description" :> description), columns) :
               id \in RenderIds, description \in ShortDescriptions,
               columns \in {cs \in SUBSET PageColumns : Cardinality(cs) <= MaxFilled}}
    \cup {("Shipment ID" :> id) @@ ("Description" :> description) :
              id \in RenderIds, description \in FragmentDescriptions}
    \cup {("Shipment ID" :> id) @@ ("Description" :> <<"t">>)
          @@ ("Latitude" :> <<"4">>) @@ ("Longitude" :> <<"-", "2", ".", "5">>) :
              id \in RenderIds}

RenderInit ==
    /\ renderRow \in RenderRows
    /\ renderImages \in {{}, {getImagePath(getValue(renderRow, "Shipment ID"))}}
    /\ renderPc = "ready"
    /\ renderPage = <<>>

\* generateAgroverseShipmentPage(mapSheetRowToShipment(row))
GenerateAgroverseShipmentPage ==
    /\ renderPc = "ready"
    /\ \E shipment \in {mapSheetRowToShipment(renderRow)} :
           renderPage' = generateAgroverseShipmentPage(shipment, renderImages)
    /\ renderPc' = "agroverse"
    /\ UNCHANGED <<renderRow, renderImages>>
    /\ UNCHANGED <<csvVars, coordVars, mergeVars, writerVars, pageVars, procVars, stepVars>>

\* generateSunmintImpactPage(mapSheetRowToShipment(row))
GenerateSunmintImpactPage ==
    /\ renderPc = "ready"
    /\ \E shipment \in {mapSheetRowToShipment(renderRow)} :
           renderPage' = generateSunmintImpactPage(shipment, renderImages)
    /\ renderPc' = "sunmint"
    /\ UNCHANGED <<renderRow, renderImages>>
    /\ UNCHANGED <<csvVars, coordVars, mergeVars, writerVars, pageVars, procVars, stepVars>>

RenderIdle ==
    /\ renderRow = <<>>
    /\ renderImages = {}
    /\ renderPc = "ready"
    /\ renderPage = <<>>

(***************************************************************************)
(* Specification of the scripts around the sheet and the pages: the sheet  *)
(* is updated by update-cacao-serialized-values and by                     *)
(* update-coordinates-from-urls, and generate-shipment-pages loads it and  *)
(* writes the pages.                                                       *)
(***************************************************************************)
\* What a flag cell may hold.
FlagValues ==
    {EmptyString, <<"Y">>, <<"y">>, <<"1">>, <<"t", "r", "u", "e">>, <<"Y", "e", "s">>,
     <<"T", "R", "U", "E">>, <<"n", "o">>, <<"0">>, <<"y", " ">>}

\* A URL the coordinate extractor finds nothing in.
PlainUrl == <<"u">>

\* Rows with every combination of the two flags, and nothing else filled in.
FlagRows ==
    {SheetRow(id, EmptyString, EmptyString, EmptyString, EmptyString, EmptyString,
              isCacao, serialized) :
         id \in {<<"A">>, <<"b">>}, isCacao \in FlagValues, serialized \in FlagValues}

\* Rows of a sheet the three scripts are run on in a row: routed to both
\* families with no map cell filled, routed to one family with a URL that
\* holds no coordinates, and routed to the other with explicit coordinates.
BatchRowsOf(id) ==
    {SheetRow(id, EmptyString, EmptyString, EmptyString, EmptyString, EmptyString,
              <<"Y">>, <<"1">>),
     SheetRow(id, Manual, EmptyString, PlainUrl, EmptyString, EmptyString,
              <<"y", "e", "s">>, EmptyString),
     SheetRow(id, EmptyString, <<"5">>, Marker1, <<"4">>, <<"4">>,
              EmptyString, <<"t", "r", "u", "e">>)}

BatchIds == {<<"a">>, <<"A">>, <<"B">>}

BatchSheets == SeqsUpTo(UNION {BatchRowsOf(id) : id \in BatchIds}, MaxSheetRows)

\* Records of the CSV file update-cacao-serialized-values reads: one of a
\* shipment of the sheet and one of a shipment the sheet does not have.
BatchCsvShipments ==
    {CsvShipment(<<"a">>, EmptyString, EmptyString, EmptyString, <<"N">>, <<"Y">>),
     CsvShipment(<<"c">>, EmptyString, EmptyString, EmptyString, <<"Y">>, <<"Y">>)}

NoFiles == [dirs |-> {}, mkdirs |-> <<>>, files |-> <<>>, writes |-> <<>>]

\* What an index.html of an earlier run holds.
OldPage == <<Markup("old page")>>

\* The output tree before the run: empty, or with the page of shipment a in
\* the first family.
FileSystems ==
    {NoFiles,
     [dirs |-> {[root |-> agroverseDir, name |-> <<"a">>]},
      mkdirs |-> <<>>,
      files |-> ([root |-> agroverseDir, name |-> <<"a">>, file |-> "index.html"]
                     :> OldPage),
      writes |-> <<>>]}

\* The images on disk: none, or the image of shipment a.
ImageFileSets == {{}, {getImagePath(<<"a">>)}}

PagesInit ==
    /\ \/ /\ sheetRows \in {<<row>> : row \in FlagRows}
          /\ newDataRows = <<>>
       \/ /\ sheetRows \in BatchSheets
          /\ newDataRows \in SeqsUpTo(BatchCsvShipments, MaxNewCsvRows)
    /\ sheetBefore = sheetRows
    /\ oldDataRows = <<>>
    /\ scriptRuns = <<>>
    /\ setCells = {}
    /\ savedRows = 0
    /\ addedRows = 0
    /\ loadedShipments = <<>>
    /\ imagesOnDisk \in ImageFileSets
    /\ fileSystem \in FileSystems
    /\ fileSystemBefore = fileSystem

\* node scripts/generate-shipment-pages: the sheet is loaded into shipments
\* and generatePages() writes the pages; mkdirs and writes are the calls of
\* this run.
GenerateShipmentPages ==
    /\ Len(scriptRuns) < MaxRuns
    /\ \E data \in {loadShipments(sheetRows)} :
           /\ loadedShipments' = data
           /\ fileSystem' = generatePages(data,
                                [fileSystem EXCEPT !.mkdirs = <<>>, !.writes = <<>>],
                                imagesOnDisk)
    /\ fileSystemBefore' = fileSystem
    /\ scriptRuns' = Append(scriptRuns, "generatePages")
    /\ sheetBefore' = sheetRows
    /\ setCells' = {}
    /\ savedRows' = 0
    /\ addedRows' = 0
    /\ UNCHANGED <<sheetRows, oldDataRows, newDataRows, imagesOnDisk>>
    /\ UNCHANGED <<csvVars, coordVars, mergeVars, renderVars, procVars, stepVars>>

PagesIdle ==
    /\ loadedShipments = <<>>
    /\ imagesOnDisk = {}
    /\ fileSystem = NoFiles
    /\ fileSystemBefore = NoFiles

(***************************************************************************)
(* The output tree over several runs of generate-shipment-pages: between   *)
(* two runs a human clears a flag of a row or removes a row of the sheet.  *)
(* Identifiers may be empty, repeated, or differ by letter case only.      *)
(***************************************************************************)
OutputIds == {EmptyString, <<"a">>, <<"A">>, <<"b">>}

OutputRows ==
    {SheetRow(id, EmptyString, EmptyString, EmptyString, EmptyString, EmptyString,
              isCacao, serialized) :
         id \in OutputIds, isCacao \in {EmptyString, <<"Y">>},
         serialized \in {EmptyString, <<"Y">>}}

\* What the index.html of a family root holds.
FamilyIndex == <<Markup("family index")>>

\* path.join(familyDir, ''): the family root itself.
familyRoot(familyDir) == [root |-> familyDir, name |-> EmptyString]

\* The output tree before the first run: empty, or the two family roots each
\* with its own index.html.
OutputTrees ==
    {NoFiles,
     [dirs |-> {familyRoot(agroverseDir), familyRoot(sunmintDir)},
      mkdirs |-> <<>>,
      files |-> (indexPath(familyRoot(agroverseDir)) :> FamilyIndex)
                @@ (indexPath(familyRoot(sunmintDir)) :> FamilyIndex),
      writes |-> <<>>]}

OutputInit ==
    /\ sheetRows \in SeqsUpTo(OutputRows, MaxSheetRows)
    /\ newDataRows = <<>>
    /\ sheetBefore = sheetRows
    /\ oldDataRows = <<>>
    /\ scriptRuns = <<>>
    /\ setCells = {}
    /\ savedRows = 0
    /\ addedRows = 0
    /\ loadedShipments = <<>>
    /\ imagesOnDisk = {}
    /\ fileSystem \in OutputTrees
    /\ fileSystemBefore = fileSystem

SheetEdited(rows) ==
    /\ sheetRows' = rows
    /\ UNCHANGED <<sheetBefore, oldDataRows, newDataRows, scriptRuns, setCells, savedRows,
                   addedRows>>
    /\ UNCHANGED <<csvVars, coordVars, mergeVars, renderVars, pageVars, procVars, stepVars>>

\* A human empties a flag cell of a row.
ClearFlag ==
    \E k \in 1..Len(sheetRows), flag \in {"Is Cacao Shipment", "Serialized"} :
        /\ sheetRows[k][flag] # EmptyString
        /\ SheetEdited([sheetRows EXCEPT ![k][flag] = EmptyString])

\* A human deletes a row of the sheet.
RemoveRow ==
    \E k \in 1..Len(sheetRows) :
        SheetEdited(SubSeq(sheetRows, 1, k - 1) \o SubSeq(sheetRows, k + 1, Len(sheetRows)))

(***************************************************************************)
(* A writer run step by step: the rows are loaded once, each iteration of  *)
(* the loop decides from the loaded rows and saves one row or adds one;    *)
(* the run may be interrupted between two iterations, and a human may type *)
(* into an empty cell of the sheet while it runs.                          *)
(***************************************************************************)
\* A save that writes one cell of the row only.
saveRowFirstCell(sheet, index, rowObject) ==
    IF \E h \in DOMAIN rowObject : rowObject[h] # sheet[index][h]
        THEN Bind(CHOOSE h \in DOMAIN rowObject : rowObject[h] # sheet[index][h], LAMBDA h :
                  [sheet EXCEPT ![index] = [sheet[index] EXCEPT ![h] = rowObject[h]]])
        ELSE sheet

\* A save that leaves alone the cells that are filled in the sheet.
saveRowBlankCellsOnly(sheet, index, rowObject) ==
    [sheet EXCEPT ![index] =
        [h \in DOMAIN sheet[index] |->
            IF IsBlank(sheet[index][h]) THEN rowObject[h] ELSE sheet[index][h]]]

\* await row.save(): the cells of the row object are written to its row of
\* the sheet in one request.
saveRow(sheet, index, rowObject) == [sheet EXCEPT ![index] = rowObject]

\* await sheet.addRow(newRowData)
addRow(sheet, newRowData) == Append(sheet, newRowData)

\* The sheet after one iteration that took the row objects from run to
\* nextRun: the rows the iteration changed are saved, the row it added is
\* appended.
sheetAfterIteration(sheet, run, nextRun) ==
    Bind({i \in 1..Len(run.rows) : nextRun.rows[i] # run.rows[i]}, LAMBDA changed :
    Bind([i \in 1..Len(sheet) |->
              IF i \in changed THEN saveRow(sheet, i, nextRun.rows[i])[i] ELSE sheet[i]],
         LAMBDA saved :
         IF nextRun.added > run.added
             THEN addRow(saved, nextRun.rows[Len(nextRun.rows)])
             ELSE saved))

\* The columns a human types into in the model.
EditedColumns == {"Status", "Serialized", "Google Maps URL"}

CrashInit ==
    /\ crashScript \in {"mergeAndUpload", "updateCoordinates"}
    /\ crashSheet \in Sheets
    /\ crashBefore = crashSheet
    /\ \/ /\ crashScript = "mergeAndUpload"
          /\ \E old \in CsvShipments, new \in CsvShipments :
                 crashTodo = mergeDataRows(<<old>>, <<new>>)
       \/ /\ crashScript = "updateCoordinates"
          /\ crashTodo = shipmentUpdates
    /\ crashRun = RunStart(<<>>)
    /\ crashStep = 1
    /\ crashEdits = <<>>
    /\ crashPc = "start"

\* const existingRows = await sheet.getRows()
LoadRows ==
    /\ crashPc = "start"
    /\ crashRun' = RunStart(crashSheet)
    /\ crashPc' = "loaded"
    /\ UNCHANGED <<crashScript, crashSheet, crashBefore, crashTodo, crashStep, crashEdits>>
    /\ UNCHANGED <<batchVars, uploadVars, perfVars, treesVars, blogVars, menuVars>>

\* The loop goes on from run to nextRun.
IterationDone(nextRun) ==
    /\ crashSheet' = sheetAfterIteration(crashSheet, crashRun, nextRun)
    /\ crashRun' = nextRun
    /\ crashStep' = crashStep + 1
    /\ UNCHANGED <<crashScript, crashBefore, crashTodo, crashEdits, crashPc>>
    /\ UNCHANGED <<batchVars, uploadVars, perfVars, treesVars, blogVars, menuVars>>

\* One iteration of  for (const shipment of mergedShipments)  in mergeAndUpload
MergeShipmentStep ==
    /\ crashPc = "loaded"
    /\ crashScript = "mergeAndUpload"
    /\ crashStep <= Len(crashTodo)
    /\ \E nextRun \in {mergeUploadShipment(
                           crashRun,
                           existingShipmentsMap(<<>>, SubSeq(crashRun.rows, 1, Len(crashBefore)), 1),
                           crashTodo[crashStep])} :
           IterationDone(nextRun)

\* One iteration of  for (const update of shipmentUpdates)  in updateCoordinates
CoordinatesStep ==
    /\ crashPc = "loaded"
    /\ crashScript = "updateCoordinates"
    /\ crashStep <= Len(crashTodo)
    /\ \E nextRun \in {updateCoordinatesEntry(crashRun, crashTodo[crashStep])} :
           IterationDone(nextRun)

\* The loop is through and the run ends.
RunEnds ==
    /\ crashPc = "loaded"
    /\ crashStep > Len(crashTodo)
    /\ crashPc' = "done"
    /\ UNCHANGED <<crashScript, crashSheet, crashBefore, crashTodo, crashRun, crashStep,
                   crashEdits>>
    /\ UNCHANGED <<batchVars, uploadVars, perfVars, treesVars, blogVars, menuVars>>

\* The process is killed between two write calls.
Interrupt ==
    /\ crashPc = "loaded"
    /\ crashStep <= Len(crashTodo)
    /\ crashPc' = "interrupted"
    /\ UNCHANGED <<crashScript, crashSheet, crashBefore, crashTodo, crashRun, crashStep,
                   crashEdits>>
    /\ UNCHANGED <<batchVars, uploadVars, perfVars, treesVars, blogVars, menuVars>>

\* A human types a value into an empty cell of the sheet while the run is
\* between two awaits.
HumanEdit ==
    /\ crashPc = "loaded"
    /\ Len(crashEdits) < MaxEdits
    /\ \E index \in 1..Len(crashBefore), column \in EditedColumns :
           /\ IsBlank(crashSheet[index][column])
           /\ crashSheet' = [crashSheet EXCEPT ![index] =
                                [crashSheet[index] EXCEPT ![column] = Manual]]
           /\ crashEdits' = Append(crashEdits, [index |-> index, column |-> column,
                                                step |-> crashStep])
    /\ UNCHANGED <<crashScript, crashBefore, crashTodo, crashRun, crashStep, crashPc>>
    /\ UNCHANGED <<batchVars, uploadVars, perfVars, treesVars, blogVars, menuVars>>

CrashIdle ==
    /\ crashScript = "none"
    /\ crashSheet = <<>>
    /\ crashBefore = <<>>
    /\ crashTodo = <<>>
    /\ crashRun = RunStart(<<>>)
    /\ crashStep = 0
    /\ crashEdits = <<>>
    /\ crashPc = "idle"
(***************************************************************************)
(* upload-shipments-to-sheets: the full upload, call by call. The tab is   *)
(* its header row and its data rows, or is missing.                        *)
(***************************************************************************)
NoTab == [exists |-> FALSE, header |-> <<>>, rows |-> <<>>]

\* sheet = await doc.addSheet({ title: CONFIG.sheetName })
addSheet(tab) == [exists |-> TRUE, header |-> <<>>, rows |-> <<>>]

\* await sheet.setHeaderRow(headers)
setHeaderRow(tab, headers) == [tab EXCEPT !.header = headers]

\* await sheet.getRows(): the data rows below the header row
getRows(tab) == tab.rows

\* A clear that leaves the data rows where they are.
clearHeaderOnly(tab) == [tab EXCEPT !.header = <<>>]

\* await sheet.clear(): every cell of the tab is emptied
clear(tab) == [tab EXCEPT !.header = <<>>, !.rows = <<>>]

\* await sheet.addRows(rows): the rows are appended below the data
addRows(tab, rows) == [tab EXCEPT !.rows = tab.rows \o rows]

\* shipments.map(mapShipmentToRow)
mapShipmentsToRows(shipments) ==
    [k \in 1..Len(shipments) |-> mapShipmentToRow(shipments[k])]

\* The tab before the upload: missing, or with up to MaxSheetRows data rows.
UploadTabs ==
    {NoTab}
    \cup {[exists |-> TRUE, header |-> header, rows |-> rows] :
              header \in {<<>>, Headers},
              rows \in SeqsUpTo(SheetRowsOf(<<"A">>), MaxSheetRows)}

UploadInit ==
    /\ uploadTab \in UploadTabs
    /\ uploadBefore = uploadTab
    /\ uploadShipments \in SeqsUpTo(CsvShipments, MaxNewCsvRows)
    /\ uploadExisting = <<>>
    /\ uploadPc = "start"

UploadStep(tab, existing, pc) ==
    /\ uploadTab' = tab
    /\ uploadExisting' = existing
    /\ uploadPc' = pc
    /\ UNCHANGED <<uploadBefore, uploadShipments>>
    /\ UNCHANGED <<batchVars, crashVars, perfVars, treesVars, blogVars, menuVars>>

\* let sheet = doc.sheetsByTitle[...]; if (!sheet) sheet = await doc.addSheet(...)
GetOrCreateSheet ==
    /\ uploadPc = "start"
    /\ UploadStep(IF uploadTab.exists THEN uploadTab ELSE addSheet(uploadTab),
                  uploadExisting, "setHeaderRow")

\* await sheet.setHeaderRow(headers), the first time and after the clear
SetHeaderRow ==
    /\ uploadPc \in {"setHeaderRow", "setHeaderRow again"}
    /\ UploadStep(setHeaderRow(uploadTab, Headers), uploadExisting,
                  IF uploadPc = "setHeaderRow" THEN "getRows" ELSE "addRows")

\* const existingRows = await sheet.getRows()
GetRows ==
    /\ uploadPc = "getRows"
    /\ \E existingRows \in {getRows(uploadTab)} :
           UploadStep(uploadTab, existingRows,
                      IF Len(existingRows) > 0 THEN "clear" ELSE "addRows")

\* await sheet.clear()
ClearSheet ==
    /\ uploadPc = "clear"
    /\ UploadStep(clear(uploadTab), uploadExisting, "setHeaderRow again")

\* await sheet.addRows(rows)
AddRows ==
    /\ uploadPc = "addRows"
    /\ UploadStep(addRows(uploadTab, mapShipmentsToRows(uploadShipments)),
                  uploadExisting, "done")

UploadIdle ==
    /\ uploadTab = NoTab
    /\ uploadBefore = NoTab
    /\ uploadShipments = <<>>
    /\ uploadExisting = <<>>
    /\ uploadPc = "idle"
(***************************************************************************)
(* updatePerformanceStatistic, in its two versions: the helper the Wix     *)
(* update functions call (PERFORMANCE_STATISTICS docs) and the function of *)
(* performance_statistics_webservice.gs. The sheet is missing, or is its   *)
(* data rows below the header row.                                         *)
(***************************************************************************)
\* The values a call passes: null, undefined or a number.
Null == [type |-> "null", v |-> 0]
Undefined == [type |-> "undefined", v |-> 0]
Number(n) == [type |-> "number", v |-> n]

\* value !== null && value !== undefined ? value : ""
valueCell(value) ==
    IF value.type # "null" /\ value.type # "undefined" THEN value
    ELSE [type |-> "string", v |-> 0]

\* A search that finds no key.
keyRowIndexNotFound(rows, key) == -1

\* for (var i = 0; i < keys.length; i++) if (keys[i][0] === key) { rowIndex = i + 2; break; }
\* The index is that of the data row (the sheet row is one more).
keyRowIndex(rows, key) ==
    IF \E i \in 1..Len(rows) : rows[i].key = key
        THEN CHOOSE i \in 1..Len(rows) :
                 /\ rows[i].key = key
                 /\ \A j \in 1..(i - 1) : rows[j].key # key
        ELSE -1

\* sheet.appendRow([key, key, value, currency || "", new Date(), new Date()])
appendRow(rows, key, value, currency, now) ==
    Append(rows, [key |-> key, description |-> key, value |-> valueCell(value),
                  currency |-> currency, updated |-> now, synced |-> now])

\* The setValue calls on the row of the key.
setValues(rows, rowIndex, value, currency, now) ==
    [rows EXCEPT ![rowIndex] =
        [key |-> rows[rowIndex].key,
         description |-> rows[rowIndex].description,
         value |-> valueCell(value),
         currency |-> IF currency # "" THEN currency ELSE rows[rowIndex].currency,
         updated |-> now,
         synced |-> now]]

\* The body of the try block once the sheet and its keys are there.
updateRows(rows, key, value, currency, now) ==
    Bind(keyRowIndex(rows, key), LAMBDA rowIndex :
         IF rowIndex = -1 THEN appendRow(rows, key, value, currency, now)
         ELSE setValues(rows, rowIndex, value, currency, now))

\* What a call leaves: the sheet, what it logged, and whether it returned or
\* threw.
Returned(sheet, msg) == [sheet |-> sheet, log |-> msg, outcome |-> "returned"]
Thrown(sheet, msg) == [sheet |-> sheet, log |-> msg, outcome |-> "thrown"]

\* The helper of the docs: a missing sheet and a sheet without data rows are
\* skipped with a warning, and the catch does not rethrow.
updatePerformanceStatisticHelper(sheet, key, value, currency, now, fails) ==
    IF fails = "openById" THEN Returned(sheet, "Error updating Performance Statistics")
    ELSE IF ~sheet.exists
        THEN Returned(sheet, "Performance Statistics sheet not found - skipping update")
    ELSE IF Len(sheet.rows) + 1 < 2
        THEN Returned(sheet, "Performance Statistics sheet has no data rows - skipping update")
    ELSE IF fails = "write" THEN Returned(sheet, "Error updating Performance Statistics")
    ELSE Returned([exists |-> TRUE,
                   rows |-> updateRows(sheet.rows, key, value, currency, now)],
                  "Updated Performance Statistics")

\* The function of the web service: a missing sheet throws, getRange with no
\* rows throws, and the catch logs and rethrows.
updatePerformanceStatistic(sheet, key, value, currency, now, fails) ==
    IF fails = "openById" THEN Thrown(sheet, "Error updating Performance Statistic")
    ELSE IF ~sheet.exists THEN Thrown(sheet, "Error updating Performance Statistic")
    ELSE IF Len(sheet.rows) < 1 THEN Thrown(sheet, "Error updating Performance Statistic")
    ELSE IF fails = "write" THEN Thrown(sheet, "Error updating Performance Statistic")
    ELSE Returned([exists |-> TRUE,
                   rows |-> updateRows(sheet.rows, key, value, currency, now)],
                  "Updated row")

\* The keys, values and currencies of the calls.
PerfKeys == {"USD_TREASURY_BALANCE", "TDG_ISSUED", ""}
PerfValues == {Null, Undefined, Number(0), Number(5)}
PerfCurrencies == {"", "USD", "TDG"}

\* A row as syncWixToPerformanceStatistics wrote it.
PerfRow(key, currency) ==
    [key |-> key, description |-> key, value |-> Number(1), currency |-> currency,
     updated |-> 0, synced |-> 0]

\* The sheet before the calls: missing, or with up to MaxPerfRows rows, each
\* key in one row at most.
PerfSheets ==
    {[exists |-> FALSE, rows |-> <<>>]}
    \cup {[exists |-> TRUE, rows |-> rows] :
              rows \in {rs \in SeqsUpTo({PerfRow(k, c) : k \in PerfKeys \ {""},
                                                        c \in {"", "USD"}}, MaxPerfRows) :
                            \A i, j \in 1..Len(rs) : rs[i].key = rs[j].key => i = j}}

PerfInit ==
    /\ perfSheet \in PerfSheets
    /\ perfBefore = perfSheet
    /\ perfVersion \in {"helper", "webservice"}
    /\ perfCall = [key |-> "", value |-> Null, currency |-> "", fails |-> "none"]
    /\ perfLog = ""
    /\ perfCalls = 0
    /\ perfPc = "ready"

CallDone(call, result) ==
    /\ perfBefore' = perfSheet
    /\ perfSheet' = result.sheet
    /\ perfCall' = call
    /\ perfLog' = result.log
    /\ perfCalls' = perfCalls + 1
    /\ perfPc' = result.outcome
    /\ UNCHANGED perfVersion
    /\ UNCHANGED <<batchVars, crashVars, uploadVars, treesVars, blogVars, menuVars>>

PerfCalls ==
    {[key |-> key, value |-> value, currency |-> currency, fails |-> fails] :
         key \in PerfKeys, value \in PerfValues, currency \in PerfCurrencies,
         fails \in {"none", "openById", "write"}}

\* A Wix update function calls the helper.
UpdatePerformanceStatisticHelper ==
    /\ perfVersion = "helper"
    /\ perfCalls < MaxCalls
    /\ \E call \in PerfCalls :
           CallDone(call,
                    updatePerformanceStatisticHelper(perfSheet, call.key, call.value,
                                                     call.currency, perfCalls + 1, call.fails))

\* A script calls the function of the web service.
UpdatePerformanceStatistic ==
    /\ perfVersion = "webservice"
    /\ perfCalls < MaxCalls
    /\ \E call \in PerfCalls :
           CallDone(call,
                    updatePerformanceStatistic(perfSheet, call.key, call.value,
                                               call.currency, perfCalls + 1, call.fails))

PerfIdle ==
    /\ perfSheet = [exists |-> FALSE, rows |-> <<>>]
    /\ perfBefore = perfSheet
    /\ perfVersion = "none"
    /\ perfCall = [key |-> "", value |-> Null, currency |-> "", fails |-> "none"]
    /\ perfLog = ""
    /\ perfCalls = 0
    /\ perfPc = "idle"

(***************************************************************************)
(* The trees-sold script of a generated page                               *)
(* (generate-shipment-pages.js 716-756 and 1056-1096, the same text).      *)
(* The page holds the elements the template rendered; the script runs once *)
(* when the page is parsed, and the callbacks of its promise chain run one *)
(* after the other when fetch settles.                                     *)
(***************************************************************************)
MaxTreesSold == 2

\* textContent = data.treesSold: the number becomes its decimal text.
String(value) == <<"0", "1", "2", "3">>[value.v + 1]

\* The [data-trees-sold] spans and the .trees-sold-loading spans of the page,
\* in document order: the header block (506-516), then the row of the
\* overview (553-563). Both are rendered only for a truthy treesToBePlanted.
treesElements(treesToBePlanted, title) ==
    IF treesToBePlanted = ""
    THEN <<>>
    ELSE [i \in 1..2 |-> [shipmentId |-> title, textContent |-> treesToBePlanted,
                          loaded |-> FALSE]]

loadingElements(treesToBePlanted) ==
    IF treesToBePlanted = "" THEN <<>> ELSE [i \in 1..2 |-> "none"]

\* document.querySelector: the first match in document order, or none.
querySelector(elements) == IF elements = <<>> THEN {} ELSE {1}

TreesTitles == {"", "agl8"}
TreesStatic == {"", "1", "100"}

\* What fetch settles with: a rejection (network failure), or a response
\* with its ok flag and its body.
TreesBodies ==
    {[json |-> "invalid", error |-> FALSE, treesSold |-> Undefined],
     [json |-> "null", error |-> FALSE, treesSold |-> Undefined]}
    \cup {[json |-> "object", error |-> TRUE, treesSold |-> Undefined]}
    \cup {[json |-> "object", error |-> FALSE, treesSold |-> sold] :
              sold \in {Undefined, Null} \cup {Number(n) : n \in 0..MaxTreesSold}}

NoBody == [json |-> "invalid", error |-> FALSE, treesSold |-> Undefined]
NoResponse == [fetch |-> "pending", ok |-> FALSE, body |-> NoBody]

TreesResponses ==
    {[fetch |-> "rejected", ok |-> FALSE, body |-> NoBody]}
    \cup {[fetch |-> "fulfilled", ok |-> ok, body |-> body] :
              ok \in BOOLEAN, body \in TreesBodies}

TreesInit ==
    /\ \E treesToBePlanted \in TreesStatic, title \in TreesTitles :
           /\ treesPage = [treesToBePlanted |-> treesToBePlanted, title |-> title]
           /\ treesCount = treesElements(treesToBePlanted, title)
           /\ treesLoading = loadingElements(treesToBePlanted)
    /\ treesResponse = NoResponse
    /\ treesWarnings = 0
    /\ treesPc = "parsed"

TreesFrame == UNCHANGED <<batchVars, crashVars, uploadVars, perfVars, blogVars, menuVars>>

\* 717-730: the script looks its elements up, shows the indicator and calls
\* fetch.
LoadTreesSold ==
    /\ treesPc = "parsed"
    /\ IF \/ querySelector(treesCount) = {}
          \/ \E i \in querySelector(treesCount) : treesCount[i].shipmentId = ""
       THEN /\ treesPc' = "returned"
            /\ UNCHANGED treesLoading
       ELSE /\ treesPc' = "pending"
            /\ treesLoading' = [i \in DOMAIN treesLoading |->
                                    IF i \in querySelector(treesLoading)
                                    THEN "inline" ELSE treesLoading[i]]
    /\ UNCHANGED <<treesPage, treesCount, treesResponse, treesWarnings>>
    /\ TreesFrame

\* fetch settles: the request failed, or a response arrived.
FetchSettles ==
    /\ treesPc = "pending"
    /\ \E response \in TreesResponses :
           /\ treesResponse' = response
           /\ treesPc' = IF response.fetch = "rejected" THEN "rejected" ELSE "response"
    /\ UNCHANGED <<treesPage, treesCount, treesLoading, treesWarnings>>
    /\ TreesFrame

\* 731-736: the first then throws on a response that is not ok, and parses
\* the body otherwise; response.json() rejects on a body that is no JSON.
ThenResponse ==
    /\ treesPc = "response"
    /\ treesPc' = IF treesResponse.ok /\ treesResponse.body.json # "invalid"
                  THEN "data" ELSE "rejected"
    /\ UNCHANGED <<treesPage, treesCount, treesLoading, treesResponse, treesWarnings>>
    /\ TreesFrame

\* 737-747: the second then. Reading data.error of null throws.
ThenData ==
    /\ treesPc = "data"
    /\ LET data == treesResponse.body IN
       IF data.json = "null"
       THEN /\ treesPc' = "rejected"
            /\ UNCHANGED <<treesCount, treesWarnings>>
       ELSE IF data.error
       THEN /\ treesPc' = "fulfilled"
            /\ treesWarnings' = treesWarnings + 1
            /\ UNCHANGED treesCount
       ELSE /\ treesPc' = "fulfilled"
            /\ treesCount' =
                   IF data.treesSold # Undefined /\ data.treesSold # Null
                   THEN [i \in DOMAIN treesCount |->
                             IF i \in querySelector(treesCount)
                             THEN [treesCount[i] EXCEPT !.textContent = String(data.treesSold),
                                                        !.loaded = TRUE]
                             ELSE treesCount[i]]
                   ELSE treesCount
            /\ UNCHANGED treesWarnings
    /\ UNCHANGED <<treesPage, treesLoading, treesResponse>>
    /\ TreesFrame

\* 748-750: the catch of the chain.
CatchWarns ==
    /\ treesPc = "rejected"
    /\ treesPc' = "fulfilled"
    /\ treesWarnings' = treesWarnings + 1
    /\ UNCHANGED <<treesPage, treesCount, treesLoading, treesResponse>>
    /\ TreesFrame

\* 751-755: the finally of the chain.
FinallyHides ==
    /\ treesPc = "fulfilled"
    /\ treesPc' = "done"
    /\ treesLoading' = [i \in DOMAIN treesLoading |->
                            IF i \in querySelector(treesLoading)
                            THEN "none" ELSE treesLoading[i]]
    /\ UNCHANGED <<treesPage, treesCount, treesResponse, treesWarnings>>
    /\ TreesFrame

TreesIdle ==
    /\ treesPage = [treesToBePlanted |-> "", title |-> ""]
    /\ treesCount = <<>>
    /\ treesLoading = <<>>
    /\ treesResponse = NoResponse
    /\ treesWarnings = 0
    /\ treesPc = "idle"

(***************************************************************************)
(* queryBlogPosts of syncBlogPosts.js (41-80), one iteration of its loop   *)
(* at a time. The collection of the service holds the posts 1..N; a query  *)
(* with paging {limit, offset} is answered with the posts after the first  *)
(* offset ones, limit at most, and with the total of the collection if the *)
(* service reports one.                                                    *)
(***************************************************************************)
MaxPosts == 205
limit == 100

Posts(n) == [i \in 1..n |-> i]

\* The response to one query. A response that is not ok carries no payload.
queryResponse(collection, carriesTotal, paging, ok) ==
    IF ~ok
    THEN [ok |-> FALSE, posts |-> <<>>, total |-> Undefined]
    ELSE [ok |-> TRUE,
          posts |-> SubSeq(collection, paging.offset + 1,
                           IF paging.offset + paging.limit < Len(collection)
                           THEN paging.offset + paging.limit ELSE Len(collection)),
          total |-> IF carriesTotal THEN Number(Len(collection)) ELSE Undefined]

\* payload.pagingMetadata?.total || 0
reportedTotal(payload) ==
    IF payload.total \in {Undefined, Null} THEN 0 ELSE payload.total.v

\* 75: the test that ends the loop.
loopBreaks(collected, total, posts) == Len(collected) >= total \/ Len(posts) < limit

BlogInit ==
    /\ blogCollection \in {Posts(n) : n \in 0..MaxPosts}
    /\ blogCarriesTotal \in BOOLEAN
    /\ blogFailsAt \in 0..3
    /\ allPosts = <<>>
    /\ offset = 0
    /\ blogQueries = <<>>
    /\ blogLastPage = <<>>
    /\ blogPc = "loop"

BlogFrame == UNCHANGED <<batchVars, crashVars, uploadVars, perfVars, treesVars, menuVars>>

\* 47-78: one iteration whose response is ok.
QueryPage ==
    /\ blogPc = "loop"
    /\ Len(blogQueries) + 1 # blogFailsAt
    /\ LET paging == [limit |-> limit, offset |-> offset]
           payload == queryResponse(blogCollection, blogCarriesTotal, paging, TRUE)
           posts == payload.posts
           collected == allPosts \o posts
           total == reportedTotal(payload)
       IN /\ blogQueries' = Append(blogQueries, paging)
          /\ allPosts' = collected
          /\ blogLastPage' = posts
          /\ IF loopBreaks(collected, total, posts)
             THEN /\ blogPc' = "returned"
                  /\ UNCHANGED offset
             ELSE /\ blogPc' = "loop"
                  /\ offset' = offset + limit
    /\ UNCHANGED <<blogCollection, blogCarriesTotal, blogFailsAt>>
    /\ BlogFrame

\* 54-63: the response is not ok, and the function throws.
QueryFails ==
    /\ blogPc = "loop"
    /\ Len(blogQueries) + 1 = blogFailsAt
    /\ blogQueries' = Append(blogQueries, [limit |-> limit, offset |-> offset])
    /\ blogPc' = "thrown"
    /\ UNCHANGED <<blogCollection, blogCarriesTotal, blogFailsAt, allPosts, offset,
                   blogLastPage>>
    /\ BlogFrame

BlogIdle ==
    /\ blogCollection = <<>>
    /\ blogCarriesTotal = FALSE
    /\ blogFailsAt = 0
    /\ allPosts = <<>>
    /\ offset = 0
    /\ blogQueries = <<>>
    /\ blogLastPage = <<>>
    /\ blogPc = "idle"

(***************************************************************************)
(* The menu script of a generated page (generate-shipment-pages.js 653-714 *)
(* and 993-1054, the same text) on the header the template renders         *)
(* (441-494). A click is dispatched to the listeners on the path from its  *)
(* target up to the site header.                                           *)
(***************************************************************************)
NumDropdowns == 3

\* setAttribute turns the boolean it is given into its text.
AttributeText(b) == IF b THEN "true" ELSE "false"

\* 441-494: the attributes and classes the page is rendered with.
RenderedHeader ==
    [menuToggle |-> [ariaExpanded |-> "false"],
     navMenu |-> [ariaHidden |-> "true"],
     siteHeader |-> [classList |-> {"site-header"}],
     dropdownToggles |-> [i \in 1..NumDropdowns |-> [ariaExpanded |-> "false"]],
     dropdownMenus |-> [i \in 1..NumDropdowns |-> [ariaExpanded |-> "false"]]]

\* What can be clicked in the header: the element, its tag, and the elements
\* with a listener on the way up from it, in bubbling order.
ClickTargets ==
    {[element |-> "menu-toggle", tagName |-> "BUTTON", index |-> 0,
      path |-> <<"menuToggle", "siteHeader">>],
     [element |-> "hamburger-line", tagName |-> "SPAN", index |-> 0,
      path |-> <<"menuToggle", "siteHeader">>],
     [element |-> "nav-link", tagName |-> "A", index |-> 0,
      path |-> <<"navMenu", "siteHeader">>],
     [element |-> "site-header", tagName |-> "NAV", index |-> 0,
      path |-> <<"siteHeader">>],
     [element |-> "header-logo", tagName |-> "IMG", index |-> 0,
      path |-> <<"siteHeader">>],
     [element |-> "nav-menu", tagName |-> "UL", index |-> 0,
      path |-> <<"navMenu", "siteHeader">>]}
    \cup {[element |-> "dropdown-link", tagName |-> "A", index |-> i,
           path |-> <<"navMenu", "siteHeader">>] : i \in 1..NumDropdowns}
    \cup {[element |-> "dropdown-toggle", tagName |-> "BUTTON", index |-> i,
           path |-> <<"dropdownToggle", "navMenu", "siteHeader">>] : i \in 1..NumDropdowns}

\* 662-667: the listener of the hamburger button.
toggleMenu(dom) ==
    LET isExpanded == dom.menuToggle.ariaExpanded = "true" IN
    [dom EXCEPT !.menuToggle.ariaExpanded = AttributeText(~isExpanded),
                !.navMenu.ariaHidden = AttributeText(isExpanded),
                !.siteHeader.classList =
                    IF ~isExpanded THEN @ \cup {"menu-open"} ELSE @ \ {"menu-open"}]

\* A close that forgets the class of the header.
closeMenuKeepsClass(dom) ==
    [dom EXCEPT !.menuToggle.ariaExpanded = "false",
                !.navMenu.ariaHidden = "true"]

\* 691-693 and 709-711: the three writes that close the menu.
closeMenu(dom) ==
    [dom EXCEPT !.menuToggle.ariaExpanded = "false",
                !.navMenu.ariaHidden = "true",
                !.siteHeader.classList = @ \ {"menu-open"}]

\* 672-686: the listener of a dropdown toggle, on a narrow window.
toggleDropdown(dom, i) ==
    LET isExpanded == dom.dropdownToggles[i].ariaExpanded = "true" IN
    [dom EXCEPT !.dropdownToggles[i].ariaExpanded = AttributeText(~isExpanded),
                !.dropdownMenus[i].ariaExpanded = AttributeText(~isExpanded)]

\* 695-703: close all dropdowns.
closeDropdowns(dom) ==
    [dom EXCEPT !.dropdownToggles = [i \in 1..NumDropdowns |-> [ariaExpanded |-> "false"]],
                !.dropdownMenus = [i \in 1..NumDropdowns |-> [ariaExpanded |-> "false"]]]

\* One listener run for a click: the document after it, and whether it
\* stopped the propagation.
listener(holder, dom, target, innerWidth) ==
    CASE holder = "menuToggle" ->
             [dom |-> toggleMenu(dom), stopped |-> FALSE]
      [] holder = "dropdownToggle" ->
             IF innerWidth <= 768
             THEN [dom |-> toggleDropdown(dom, target.index), stopped |-> TRUE]
             ELSE [dom |-> dom, stopped |-> FALSE]
      [] holder = "navMenu" ->
             IF target.tagName = "A"
             THEN [dom |-> closeDropdowns(closeMenu(dom)), stopped |-> FALSE]
             ELSE [dom |-> dom, stopped |-> FALSE]
      [] holder = "siteHeader" ->
             IF target.element = "site-header"
             THEN [dom |-> closeMenu(dom), stopped |-> FALSE]
             ELSE [dom |-> dom, stopped |-> FALSE]

\* The click bubbles from listener i of the path on.
RECURSIVE dispatch(_, _, _, _)
dispatch(dom, target, innerWidth, i) ==
    IF i > Len(target.path)
    THEN dom
    ELSE LET ran == listener(target.path[i], dom, target, innerWidth) IN
         IF ran.stopped THEN ran.dom ELSE dispatch(ran.dom, target, innerWidth, i + 1)

InnerWidths == {375, 768, 1280}
NoClick == [element |-> "none", tagName |-> "", index |-> 0, path |-> <<>>]

MenuInit ==
    /\ menuDom = RenderedHeader
    /\ menuClick = [target |-> NoClick, innerWidth |-> 1280]
    /\ menuPc = "parsed"

MenuFrame == UNCHANGED <<batchVars, crashVars, uploadVars, perfVars, treesVars, blogVars>>

\* 654-660: the script finds its elements and adds its listeners.
AddListeners ==
    /\ menuPc = "parsed"
    /\ menuPc' = "listening"
    /\ UNCHANGED <<menuDom, menuClick>>
    /\ MenuFrame

\* A click on one of the elements, with the listeners it reaches.
ClickOn(elements) ==
    /\ \E target \in {t \in ClickTargets : t.element \in elements}, innerWidth \in InnerWidths :
           /\ menuDom' = dispatch(menuDom, target, innerWidth, 1)
           /\ menuClick' = [target |-> target, innerWidth |-> innerWidth]
    /\ UNCHANGED menuPc
    /\ MenuFrame

ClickHamburger ==
    /\ menuPc = "listening"
    /\ ClickOn({"menu-toggle", "hamburger-line"})

ClickLink ==
    /\ menuPc = "listening"
    /\ ClickOn({"nav-link", "dropdown-link"})

ClickDropdownToggle ==
    /\ menuPc = "listening"
    /\ ClickOn({"dropdown-toggle"})

ClickOverlay ==
    /\ menuPc = "listening"
    /\ ClickOn({"site-header"})

ClickElsewhere ==
    /\ menuPc = "listening"
    /\ ClickOn({"header-logo", "nav-menu"})

MenuIdle ==
    /\ menuDom = RenderedHeader
    /\ menuClick = [target |-> NoClick, innerWidth |-> 1280]
    /\ menuPc = "idle"
StepsIdle == CrashIdle /\ UploadIdle /\ PerfIdle /\ TreesIdle /\ BlogIdle /\ MenuIdle

(***************************************************************************)
(* The scripts as node processes: what a run finds (the credentials file,  *)
(* the tab of the spreadsheet, calls that raise an exception), what it     *)
(* logs and calls, in order, and the status it exits with.                 *)
(***************************************************************************)
\* The events of a run: a message logged, a call of the spreadsheet API or of
\* the file system that returned, and an exception raised.
Log(msg) == [kind |-> "log", what |-> msg]
Call(name) == [kind |-> "call", what |-> name]
Throw(name) == [kind |-> "throw", what |-> name]

\* The calls that write to the spreadsheet or to the disk.
WriteCalls ==
    {"addSheet", "setHeaderRow", "batchUpdate", "values.update", "save", "addRow",
     "addRows", "clear", "writeFileSync"}

\* A run of an async function so far: the events, and whether it is still
\* running ("ok"), an exception is propagating ("thrown"), or the process has
\* exited.
Start == [trace |-> <<>>, status |-> "ok"]

\* console.log / console.error
Say(r, msg) ==
    IF r.status # "ok" THEN r ELSE [trace |-> Append(r.trace, Log(msg)), status |-> "ok"]

\* await call(): the call returns, or raises when the run's environment makes
\* it fail.
Do(r, name, env) ==
    IF r.status # "ok" THEN r
    ELSE IF name \in env.fails
        THEN [trace |-> Append(r.trace, Throw(name)), status |-> "thrown"]
        ELSE [trace |-> Append(r.trace, Call(name)), status |-> "ok"]

\* The same call once for each of n records.
RECURSIVE DoTimes(_, _, _, _)
DoTimes(r, name, n, env) ==
    IF n = 0 THEN r ELSE DoTimes(Do(r, name, env), name, n - 1, env)

\* if (cond) throw new Error(what), or an expression that raises when cond.
ThrowIf(r, cond, what) ==
    IF r.status = "ok" /\ cond
        THEN [trace |-> Append(r.trace, Throw(what)), status |-> "thrown"]
        ELSE r

\* if (cond) { console.error(msg); process.exit(1); }
ExitIf(r, cond, msg) ==
    IF r.status = "ok" /\ cond
        THEN [trace |-> Append(r.trace, Log(msg)), status |-> "exit 1"]
        ELSE r

\* catch (error) { console.error(msg, error); throw error; }
CatchLogRethrow(r, msg) ==
    IF r.status = "thrown"
        THEN [trace |-> Append(r.trace, Log(msg)), status |-> "thrown"]
        ELSE r

\* catch (error) { console.log(msg); } and the run goes on.
CatchLogContinue(r, msg) ==
    IF r.status = "thrown"
        THEN [trace |-> Append(r.trace, Log(msg)), status |-> "ok"]
        ELSE r

\* .catch(error => { console.error(msg, error); process.exit(1); })
CatchLogExit(r, msg) ==
    IF r.status = "thrown"
        THEN [trace |-> Append(r.trace, Log(msg)), status |-> "exit 1"]
        ELSE r

\* The end of a script with one promise chain: when the function returned the
\* event loop empties and node exits with 0; a rejection nothing handles is
\* reported by node, which exits with 1 or, in the versions that only warn,
\* with 0.
Settle(r, env) ==
    IF r.status = "ok" THEN [trace |-> r.trace, status |-> "exit 0"]
    ELSE IF r.status = "thrown"
        THEN [trace |-> Append(r.trace, Log("unhandled rejection")),
              status |-> IF env.rejections = "throw" THEN "exit 1" ELSE "exit 0"]
        ELSE r

\* update-agl15-shipment-image.js
updateAgl15ShipmentImage(env) ==
    LET r1 == ExitIf(Start, ~env.credentials, "No Google service account credentials found")
        r2 == ExitIf(Do(r1, "loadInfo", env), ~env.sheet, "Sheet not found")
        r3 == ExitIf(Do(Do(r2, "loadHeaderRow", env), "getRows", env),
                     env.records = 0, "AGL15 row not found")
        r4 == Say(Do(r3, "save", env), "Updated AGL15 Shipment Image and Description")
    IN  Settle(CatchLogExit(r4, "Error"), env)

\* update-cacao-serialized-values.js: updateValues().catch(console.error)
updateValuesProcess(env) ==
    LET r1 == ThrowIf(Start, ~env.credentials, "readFileSync")
        r2 == ThrowIf(Do(r1, "loadInfo", env), ~env.sheet, "TypeError")
        r3 == Do(Do(r2, "loadHeaderRow", env), "getRows", env)
        r4 == Say(DoTimes(r3, "save", env.records, env), "Updated shipments")
    IN  Settle(CatchLogContinue(r4, "error"), env)

\* update-coordinates-from-urls.js: updateCoordinates()
updateCoordinatesProcess(env) ==
    IF ~env.credentials
        THEN Settle(Say(Start, "No Google service account credentials found"), env)
        ELSE LET r1 == ThrowIf(Do(Start, "loadInfo", env), ~env.sheet, "Sheet not found")
                 r2 == Do(Do(r1, "loadHeaderRow", env), "getRows", env)
                 r3 == Say(DoTimes(r2, "save", env.records, env),
                           "Successfully updated shipments with coordinates")
             IN  Settle(CatchLogRethrow(r3, "Error updating coordinates"), env)

\* upload-shipments-to-sheets.js: uploadToGoogleSheets()
uploadToGoogleSheets(env) ==
    IF ~env.credentials
        THEN Settle(Say(Start, "No Google service account credentials found"), env)
        ELSE LET r1 == Do(Start, "loadInfo", env)
                 r2 == IF env.sheet THEN r1 ELSE Do(r1, "addSheet", env)
                 r3 == Do(Do(r2, "setHeaderRow", env), "getRows", env)
                 r4 == IF env.sheet /\ env.records > 0
                           THEN Do(Do(r3, "clear", env), "setHeaderRow", env)
                           ELSE r3
                 r5 == Say(Do(r4, "addRows", env), "Successfully uploaded shipments")
             IN  Settle(CatchLogExit(r5, "Error uploading to Google Sheets"), env)

\* merge-and-upload: the header row is brought up to date. setHeaderRow raises
\* 'not large enough' when the sheet has too few columns; then the columns are
\* inserted with batchUpdate and setHeaderRow is called again, and when that
\* raises, the headers are written with values.update, and when that raises
\* too, the run continues with the headers the sheet has.
updateHeaders(r, env) ==
    IF r.status # "ok" THEN r
    ELSE IF env.headers = "missing"
        THEN IF env.tooSmall
                 THEN LET a1 == Say([trace |-> Append(r.trace, Throw("setHeaderRow")),
                                     status |-> "ok"],
                                    "Sheet needs more columns. Attempting to add columns...")
                          a2 == Say(Do(Do(a1, "batchUpdate", env), "setHeaderRow", env),
                                    "Headers updated")
                          a3 == CatchLogContinue(a2, "Could not automatically add columns")
                          a4 == IF a2.status = "thrown"
                                    THEN Say(Do(a3, "values.update", env),
                                             "Headers written directly to sheet")
                                    ELSE a3
                      IN  CatchLogContinue(a4, "Continuing with existing headers...")
                 ELSE Say(Do(r, "setHeaderRow", env), "Headers updated with new columns")
    ELSE IF env.headers = "differ"
        THEN CatchLogContinue(Say(Do(r, "setHeaderRow", env), "Headers updated"),
                              "Could not update headers")
        ELSE Say(r, "Headers already match")

\* update-cacao-serialized-values.js (merge-and-upload): mergeAndUpload()
mergeAndUploadProcess(env) ==
    IF ~env.credentials
        THEN Settle(Say(Start, "No Google service account credentials found"), env)
        ELSE LET r1 == Do(Start, "loadInfo", env)
                 r2 == IF env.sheet THEN r1 ELSE Do(r1, "addSheet", env)
                 r3 == updateHeaders(Do(r2, "loadHeaderRow", env), env)
                 r4 == Do(Do(r3, "loadHeaderRow", env), "getRows", env)
                 r5 == DoTimes(r4, IF env.sheet THEN "save" ELSE "addRow", env.records, env)
                 r6 == Say(r5, "Successfully merged and uploaded all shipments")
             IN  Settle(CatchLogRethrow(r6, "Error merging and uploading"), env)

\* The scripts, and the calls each makes.
Scripts ==
    {"generatePages", "mergeAndUpload", "updateValues", "updateCoordinates",
     "uploadToGoogleSheets", "updateAgl15ShipmentImage"}

CallsOf(script) ==
    CASE script = "generatePages" -> {"loadInfo", "loadHeaderRow", "getRows", "writeFileSync"}
      [] script = "mergeAndUpload" ->
             {"loadInfo", "addSheet", "loadHeaderRow", "setHeaderRow", "batchUpdate",
              "values.update", "getRows", "save", "addRow"}
      [] script = "uploadToGoogleSheets" ->
             {"loadInfo", "addSheet", "setHeaderRow", "getRows", "clear", "addRows"}
      [] OTHER -> {"loadInfo", "loadHeaderRow", "getRows", "save"}

\* What a run of a script may find: the credentials file there or not, the
\* tab there or not, the state of the header row (merge-and-upload only), at
\* most MaxFailures calls that raise, up to MaxRecords records to process, and
\* what node does with a rejection nothing handles (the scripts without a
\* catch at the top level only).
ProcEnvs(script) ==
    {[credentials |-> credentials, sheet |-> sheet, headers |-> headers,
      tooSmall |-> tooSmall, fails |-> fails, records |-> records,
      rejections |-> rejections] :
         credentials \in BOOLEAN, sheet \in BOOLEAN,
         headers \in (IF script = "mergeAndUpload" THEN {"match", "differ", "missing"}
                      ELSE {"match"}),
         tooSmall \in (IF script = "mergeAndUpload" THEN BOOLEAN ELSE {FALSE}),
         fails \in {fs \in SUBSET CallsOf(script) : Cardinality(fs) <= MaxFailures},
         records \in 0..MaxRecords,
         rejections \in (IF script \in {"mergeAndUpload", "updateCoordinates"}
                         THEN {"throw", "warn"} ELSE {"throw"})}

\* The promise chains of a script: generate-shipment-pages starts one at
\* line 180 and one at line 1151, the other scripts have one.
ChainsOf(script) == IF script = "generatePages" THEN {"first", "second"} ELSE {"main"}

ProcInit ==
    /\ procScript \in Scripts
    /\ procEnv \in ProcEnvs(procScript)
    /\ procPc = [c \in ChainsOf(procScript) |-> "start"]
    /\ procTrace = <<>>
    /\ procExit = "running"

\* A script with one chain runs to its end.
RunScript(script, run) ==
    /\ procScript = script
    /\ procExit = "running"
    /\ procPc["main"] = "start"
    /\ procPc' = [procPc EXCEPT !["main"] = "done"]
    /\ procTrace' = run.trace
    /\ procExit' = run.status
    /\ UNCHANGED <<procScript, procEnv>>
    /\ UNCHANGED <<csvVars, coordVars, mergeVars, writerVars, renderVars, pageVars, stepVars>>

RunMergeAndUpload ==
    \E run \in {mergeAndUploadProcess(procEnv)} : RunScript("mergeAndUpload", run)

RunUpdateValues ==
    \E run \in {updateValuesProcess(procEnv)} : RunScript("updateValues", run)

RunUpdateCoordinates ==
    \E run \in {updateCoordinatesProcess(procEnv)} : RunScript("updateCoordinates", run)

RunUploadToGoogleSheets ==
    \E run \in {uploadToGoogleSheets(procEnv)} : RunScript("uploadToGoogleSheets", run)

RunUpdateAgl15ShipmentImage ==
    \E run \in {updateAgl15ShipmentImage(procEnv)} :
        RunScript("updateAgl15ShipmentImage", run)

\* generate-shipment-pages.js is evaluated: loadShipmentsFromGoogleSheets() is
\* called at line 180 and, the file being run as a script, again at line 1151.
\* Without the credentials file the first call exits; otherwise each call runs
\* up to its first await, doc.loadInfo().
StartLoads ==
    /\ procScript = "generatePages"
    /\ procExit = "running"
    /\ \A c \in DOMAIN procPc : procPc[c] = "start"
    /\ IF ~procEnv.credentials
           THEN /\ procTrace' = <<Log("Loading shipments from Google Sheets"),
                                  Log("No Google service account credentials found")>>
                /\ procExit' = "exit 1"
                /\ procPc' = [c \in DOMAIN procPc |-> "done"]
           ELSE /\ procTrace' = <<Log("Loading shipments from Google Sheets"),
                                  Log("Loading shipments from Google Sheets")>>
                /\ procExit' = "running"
                /\ procPc' = [c \in DOMAIN procPc |-> "loadInfo"]
    /\ UNCHANGED <<procScript, procEnv>>
    /\ UNCHANGED <<csvVars, coordVars, mergeVars, writerVars, renderVars, pageVars, stepVars>>

\* What the chain does when its load has settled as r: a rejection is logged
\* by the catch of the function and by the catch of the chain, which exits;
\* otherwise the chain is at its next await.
ChainGoesOn(c, r, next) ==
    /\ procTrace' = CatchLogExit(CatchLogRethrow(r, "Error loading from Google Sheets"),
                                 IF c = "first" THEN "Failed to load shipments"
                                 ELSE "Error generating pages").trace
    /\ procExit' = IF r.status = "ok" THEN "running" ELSE "exit 1"
    /\ procPc' = [procPc EXCEPT ![c] = IF r.status = "ok" THEN next ELSE "done"]
    /\ UNCHANGED <<procScript, procEnv>>
    /\ UNCHANGED <<csvVars, coordVars, mergeVars, writerVars, renderVars, pageVars, stepVars>>

\* await doc.loadInfo() of one of the two loads settles; the tab is looked up.
LoadInfoSettles ==
    /\ procScript = "generatePages"
    /\ procExit = "running"
    /\ \E c \in DOMAIN procPc :
           /\ procPc[c] = "loadInfo"
           /\ ChainGoesOn(c, ThrowIf(Do([trace |-> procTrace, status |-> "ok"],
                                        "loadInfo", procEnv),
                                     ~procEnv.sheet, "Sheet not found"),
                          "loadHeaderRow")

\* await sheet.loadHeaderRow() of one of the two loads settles.
LoadHeaderRowSettles ==
    /\ procScript = "generatePages"
    /\ procExit = "running"
    /\ \E c \in DOMAIN procPc :
           /\ procPc[c] = "loadHeaderRow"
           /\ ChainGoesOn(c, Do([trace |-> procTrace, status |-> "ok"],
                                "loadHeaderRow", procEnv),
                          "getRows")

\* generatePages(): a page is written for each record.
generatePagesProcess(r, env) ==
    Say(DoTimes(r, "writeFileSync", env.records, env), "Generated shipment pages")

\* await sheet.getRows() of the load of line 180 settles, the promise resolves
\* and its then-callback calls generatePages().
FirstLoadResolves ==
    /\ procScript = "generatePages"
    /\ procExit = "running"
    /\ procPc["first"] = "getRows"
    /\ ChainGoesOn("first",
                   generatePagesProcess(
                       Say(Do([trace |-> procTrace, status |-> "ok"], "getRows", procEnv),
                           "Loaded shipments from Google Sheets"),
                       procEnv),
                   "done")

\* await sheet.getRows() of the load of line 1151 settles, the promise
\* resolves and its then-callback logs the final message.
SecondLoadResolves ==
    /\ procScript = "generatePages"
    /\ procExit = "running"
    /\ procPc["second"] = "getRows"
    /\ ChainGoesOn("second",
                   Say(Say(Do([trace |-> procTrace, status |-> "ok"], "getRows", procEnv),
                           "Loaded shipments from Google Sheets"),
                       "All pages generated successfully!"),
                   "done")

\* Both chains are through: the event loop is empty and node exits with 0.
EventLoopEmpties ==
    /\ procScript = "generatePages"
    /\ procExit = "running"
    /\ \A c \in DOMAIN procPc : procPc[c] = "done"
    /\ procExit' = "exit 0"
    /\ UNCHANGED <<procScript, procEnv, procPc, procTrace>>
    /\ UNCHANGED <<csvVars, coordVars, mergeVars, writerVars, renderVars, pageVars, stepVars>>

ProcIdle ==
    /\ procScript = "none"
    /\ procEnv = <<>>
    /\ procPc = <<>>
    /\ procTrace = <<>>
    /\ procExit = "running"

(***************************************************************************)
(* The specifications: each runs one part of the pipeline and leaves the   *)
(* variables of the other parts idle.                                      *)
(***************************************************************************)
InitCsv == CsvInit /\ CoordIdle /\ MergeIdle /\ WriterIdle /\ RenderIdle /\ PagesIdle /\ ProcIdle /\ StepsIdle
NextCsv == ParseCSV \/ LogCsvCounts
SpecCsv == InitCsv /\ [][NextCsv]_vars

InitCoord == CoordInit /\ CsvIdle /\ MergeIdle /\ WriterIdle /\ RenderIdle /\ PagesIdle /\ ProcIdle /\ StepsIdle
NextCoord == ExtractCoordinates \/ MapSheetRowToShipment \/ MapShipmentToRow
SpecCoord == InitCoord /\ [][NextCoord]_vars

InitMerge == MergeInit /\ CsvIdle /\ CoordIdle /\ WriterIdle /\ RenderIdle /\ PagesIdle /\ ProcIdle /\ StepsIdle
NextMerge == MergeShipments \/ MergeDataRows
SpecMerge == InitMerge /\ [][NextMerge]_vars

InitWriter == WriterInit /\ CsvIdle /\ CoordIdle /\ MergeIdle /\ RenderIdle /\ PagesIdle /\ ProcIdle /\ StepsIdle
NextWriter == MergeAndUpload \/ UpdateValues \/ UpdateCoordinates
SpecWriter == InitWriter /\ [][NextWriter]_vars

InitRender == RenderInit /\ CsvIdle /\ CoordIdle /\ MergeIdle /\ WriterIdle /\ PagesIdle /\ ProcIdle /\ StepsIdle
NextRender == GenerateAgroverseShipmentPage \/ GenerateSunmintImpactPage
SpecRender == InitRender /\ [][NextRender]_vars

InitPages == PagesInit /\ CsvIdle /\ CoordIdle /\ MergeIdle /\ RenderIdle /\ ProcIdle /\ StepsIdle
NextPages == GenerateShipmentPages \/ UpdateValues \/ UpdateCoordinates
SpecPages == InitPages /\ [][NextPages]_vars

InitProcess == ProcInit /\ CsvIdle /\ CoordIdle /\ MergeIdle /\ WriterIdle /\ RenderIdle /\ PagesIdle /\ StepsIdle
NextProcess ==
    \/ RunMergeAndUpload \/ RunUpdateValues \/ RunUpdateCoordinates
    \/ RunUploadToGoogleSheets \/ RunUpdateAgl15ShipmentImage
    \/ StartLoads \/ LoadInfoSettles \/ LoadHeaderRowSettles
    \/ FirstLoadResolves \/ SecondLoadResolves \/ EventLoopEmpties
SpecProcess == InitProcess /\ [][NextProcess]_vars

IdleBatch == CsvIdle /\ CoordIdle /\ MergeIdle /\ WriterIdle /\ RenderIdle /\ PagesIdle /\ ProcIdle

InitCrash == CrashInit /\ IdleBatch /\ UploadIdle /\ PerfIdle /\ TreesIdle /\ BlogIdle /\ MenuIdle
NextCrash ==
    \/ LoadRows \/ MergeShipmentStep \/ CoordinatesStep \/ RunEnds \/ Interrupt \/ HumanEdit
SpecCrash == InitCrash /\ [][NextCrash]_vars

InitUpload == UploadInit /\ IdleBatch /\ CrashIdle /\ PerfIdle /\ TreesIdle /\ BlogIdle /\ MenuIdle
NextUpload == GetOrCreateSheet \/ SetHeaderRow \/ GetRows \/ ClearSheet \/ AddRows
SpecUpload == InitUpload /\ [][NextUpload]_vars

InitPerf == PerfInit /\ IdleBatch /\ CrashIdle /\ UploadIdle /\ TreesIdle /\ BlogIdle /\ MenuIdle
NextPerf == UpdatePerformanceStatisticHelper \/ UpdatePerformanceStatistic
SpecPerf == InitPerf /\ [][NextPerf]_vars

InitTrees == TreesInit /\ IdleBatch /\ CrashIdle /\ UploadIdle /\ PerfIdle /\ BlogIdle /\ MenuIdle
NextTrees ==
    \/ LoadTreesSold \/ FetchSettles \/ ThenResponse \/ ThenData \/ CatchWarns
    \/ FinallyHides
SpecTrees == InitTrees /\ [][NextTrees]_vars

InitBlog == BlogInit /\ IdleBatch /\ CrashIdle /\ UploadIdle /\ PerfIdle /\ TreesIdle /\ MenuIdle
NextBlog == QueryPage \/ QueryFails
SpecBlog == InitBlog /\ [][NextBlog]_vars

InitOutput == OutputInit /\ CsvIdle /\ CoordIdle /\ MergeIdle /\ RenderIdle /\ ProcIdle /\ StepsIdle
NextOutput == GenerateShipmentPages \/ ClearFlag \/ RemoveRow
SpecOutput == InitOutput /\ [][NextOutput]_vars

InitMenu == MenuInit /\ IdleBatch /\ CrashIdle /\ UploadIdle /\ PerfIdle /\ TreesIdle /\ BlogIdle
NextMenu ==
    \/ AddListeners \/ ClickHamburger \/ ClickLink \/ ClickDropdownToggle \/ ClickOverlay
    \/ ClickElsewhere
SpecMenu == InitMenu /\ [][NextMenu]_vars

\* The browser settles every request (it gives up on one that gets no answer)
\* and runs every callback that is due.
SpecTreesFair ==
    SpecTrees /\ WF_vars(FetchSettles) /\ WF_vars(ThenResponse) /\ WF_vars(ThenData)
              /\ WF_vars(CatchWarns) /\ WF_vars(FinallyHides)

(***************************************************************************)
(* Claims about the parser.                                                *)
(***************************************************************************)

\* C9 (as claimed): CSV round-trip. Once the text written from a record set
\* has been parsed, the parser has returned one record per original record,
\* and each holds, under every header, exactly the original field value.
C9_RoundTripExact ==
    (csvPc = "parsed" /\ csvSource # NoSource) =>
        /\ csvResult.kind = "object"
        /\ Len(csvResult.dataRows) = Len(csvSource.records)
        /\ \A k \in 1..Len(csvSource.records) :
               \A j \in 1..Len(csvSource.headers) :
                   csvResult.dataRows[k][csvSource.headers[j]] = csvSource.records[k][j]

\* The text does not end inside an open quoted field (where an appended
\* newline would be field content, not the end of a row).
QuotesBalanced(content) ==
    Cardinality({k \in 1..Len(content) : content[k] = QUOTE}) % 2 = 0

\* C10: trailing row emission. The result of parsing a text that ends outside
\* a quoted field is the result of parsing the same text with a newline
\* appended, for both variants of the parser; in particular a text that ends
\* in a comma yields its last row with the empty last field.
C10_TrailingRowEmitted ==
    (csvPc = "parsed" /\ QuotesBalanced(csvContent)) =>
        /\ csvResult = parseCSV(csvContent \o <<LF>>)
        /\ csvRowsResult = parseCSVRows(csvContent \o <<LF>>)

\* C10 witness: the text "a,b<LF>a," (no final newline, ending in a comma) has
\* been parsed into one record whose last field is the empty string.
C10_Witness ==
    /\ csvPc = "parsed"
    /\ csvContent = <<"a", COMMA, "b", LF, "a", COMMA>>
    /\ csvResult.kind = "object"
    /\ Len(csvResult.dataRows) = 1
    /\ csvResult.dataRows[1][<<"a">>] = <<"a">>
    /\ csvResult.dataRows[1][<<"b">>] = EmptyString
    /\ csvRowsResult = csvResult.dataRows

(***************************************************************************)
(* Claims about the coordinate operations.                                 *)
(***************************************************************************)
\* The indices of url at which a match of the pattern starts (At(url, p) is the
\* match of the pattern at index p).
Occurrences(url, At(_, _)) == {p \in 1..Len(url) : At(url, p) # NoMatch}

\* The coordinate pair of the match of the pattern at index p.
PairOf(url, p, At(_, _)) ==
    [isNull |-> FALSE, lat |-> parseFloat(At(url, p).g1), lng |-> parseFloat(At(url, p).g2)]

Min(S) == CHOOSE p \in S : \A q \in S : p <= q
Max(S) == CHOOSE p \in S : \A q \in S : p >= q

\* No marker starts inside another one (inside the digits that end it).
MarkersDisjoint(url) ==
    \A p, q \in Occurrences(url, locationPatternAt) :
        p < q => locationPatternAt(url, p).end <= q

\* C7: coordinate priority. extractCoordinates returns the pair of a
\* '3d<lat>!4d<lng>' marker after which no other marker follows, whenever the
\* URL holds a marker, whatever '@' or 'll=' pair it holds as well: the pair of
\* the last marker of the URL when no marker starts inside another one.
\* Without a marker it returns the first '@lat,lng' pair; without that, the
\* first 'll=lat,lng' query pair; and null when nothing matches or the URL is
\* empty.
C7_CoordinatePriority ==
    (coordPc = "extractCoordinates") =>
        LET markers == Occurrences(coordUrl, locationPatternAt)
            ats == Occurrences(coordUrl, atPatternAt)
            lls == Occurrences(coordUrl, llPatternAt)
        IN  IF markers # {}
                THEN /\ \E p \in markers :
                         /\ coordResult = PairOf(coordUrl, p, locationPatternAt)
                         /\ \A q \in markers : q < locationPatternAt(coordUrl, p).end
                     /\ MarkersDisjoint(coordUrl) =>
                            coordResult = PairOf(coordUrl, Max(markers), locationPatternAt)
            ELSE IF ats # {} THEN coordResult = PairOf(coordUrl, Min(ats), atPatternAt)
            ELSE IF lls # {} THEN coordResult = PairOf(coordUrl, Min(lls), llPatternAt)
            ELSE coordResult = null

\* C7 witness: the URL "@-2.5,1" "3d7.!4d1!" "3d1!4d-2.5" holds a viewport pair
\* and two markers, and the extractor has returned the pair of the second
\* marker.
C7_Witness ==
    /\ coordPc = "extractCoordinates"
    /\ coordUrl = At1 \o Marker2 \o Marker1
    /\ Occurrences(coordUrl, atPatternAt) # {}
    /\ Cardinality(Occurrences(coordUrl, locationPatternAt)) = 2
    /\ coordResult = [isNull |-> FALSE, lat |-> <<"1">>, lng |-> <<"-", "2", ".", "5">>]

\* Both cells are non-empty and parseFloat yields a number for each.
ExplicitNumeric(lat, lng) ==
    /\ lat # EmptyString
    /\ lng # EmptyString
    /\ ~isNaN(parseFloat(lat))
    /\ ~isNaN(parseFloat(lng))

\* C8 (as claimed): in page generation and in the row mapping of the
\* reconciler, explicit Latitude and Longitude that are both present and
\* numeric are the coordinate pair and the extractor is not called; only
\* otherwise is the pair derived from the map URL.
C8_ExplicitCoordinatesWinEverywhere ==
    (coordPc \in {"mapSheetRowToShipment", "mapShipmentToRow"}) =>
        IF ExplicitNumeric(coordLat, coordLng)
            THEN /\ coordResult = [isNull |-> FALSE, lat |-> parseFloat(coordLat),
                                   lng |-> parseFloat(coordLng)]
                 /\ extractorCalls = 0
            ELSE coordResult = extractCoordinates(coordUrl)

\* C8 (amended): in page generation (mapSheetRowToShipment), explicit Latitude
\* and Longitude that are both present and numeric are the coordinate pair
\* and the extractor is not called, and only otherwise is the pair derived
\* from the map URL; the row mapping of the reconciler (mapShipmentToRow)
\* always calls the extractor and derives the pair from the map URL, whatever
\* the explicit fields hold.
C8_ExplicitCoordinatesWinInPageGeneration ==
    /\ (coordPc = "mapSheetRowToShipment") =>
           IF ExplicitNumeric(coordLat, coordLng)
               THEN /\ coordResult = [isNull |-> FALSE, lat |-> parseFloat(coordLat),
                                      lng |-> parseFloat(coordLng)]
                    /\ extractorCalls = 0
               ELSE /\ coordResult = extractCoordinates(coordUrl)
                    /\ extractorCalls = IF coordUrl = EmptyString THEN 0 ELSE 1
    /\ (coordPc = "mapShipmentToRow") =>
           /\ coordResult = extractCoordinates(coordUrl)
           /\ extractorCalls = 1

\* C8 witness: a sheet row with Latitude "4", Longitude "-2.5" and a URL that
\* holds a marker has been mapped for page generation, and its pair is (4, -2.5)
\* without a call of the extractor.
C8_Witness ==
    /\ coordPc = "mapSheetRowToShipment"
    /\ coordLat = <<"4">>
    /\ coordLng = <<"-", "2", ".", "5">>
    /\ Occurrences(coordUrl, locationPatternAt) # {}
    /\ coordResult = [isNull |-> FALSE, lat |-> <<"4">>, lng |-> <<"-", "2", ".", "5">>]
    /\ extractorCalls = 0

IdentifierOf(record) == toUpperCase(getValue(record, "shipment_contract_number"))

\* The identifiers that occur in a record set (the empty string is none).
IdentifiersIn(records) ==
    {IdentifierOf(records[k]) : k \in 1..Len(records)} \ {EmptyString}

RecordsWith(records, id) == {k \in 1..Len(records) : IdentifierOf(records[k]) = id}

\* C5: merge totality and uniqueness. After the keyed merge every identifier
\* of either source has exactly one output record, every output record has an
\* identifier of one of the sources, and the record of an identifier that
\* occurs in one source only (once: identifiers are unique within a record
\* set) is in the output with all its fields unchanged.
C5_MergeTotalUnique ==
    (mergePc = "merged") =>
        LET ids == IdentifiersIn(oldRows) \cup IdentifiersIn(newRows)
        IN  /\ \A id \in ids : Cardinality(RecordsWith(mergedShipments, id)) = 1
            /\ \A k \in 1..Len(mergedShipments) : IdentifierOf(mergedShipments[k]) \in ids
            /\ \A id \in IdentifiersIn(oldRows) \ IdentifiersIn(newRows) :
                   Cardinality(RecordsWith(oldRows, id)) = 1 =>
                       \A k \in RecordsWith(oldRows, id) :
                           \A m \in RecordsWith(mergedShipments, id) :
                               mergedShipments[m] = oldRows[k]
            /\ \A id \in IdentifiersIn(newRows) \ IdentifiersIn(oldRows) :
                   Cardinality(RecordsWith(newRows, id)) = 1 =>
                       \A k \in RecordsWith(newRows, id) :
                           \A m \in RecordsWith(mergedShipments, id) :
                               mergedShipments[m] = newRows[k]

\* C5 witness: the old export has a record "a", the new export has records
\* "A" and "b"; the merge has produced two records, one for A and the
\* record of b unchanged.
C5_Witness ==
    /\ mergePc = "merged"
    /\ Len(oldRows) = 1
    /\ Len(newRows) = 2
    /\ oldRows[1] = Shipment(<<"a">>, <<"x">>, <<"u">>)
    /\ newRows[1] = Shipment(<<"A">>, EmptyString, EmptyString)
    /\ newRows[2] = Shipment(<<"b">>, <<"x">>, EmptyString)
    /\ Len(mergedShipments) = 2
    /\ mergedShipments[1] = Shipment(<<"A">>, <<"x">>, <<"u">>)
    /\ mergedShipments[2] = newRows[2]

\* C6: merge idempotence. A record set (each record with an identifier, no
\* identifier twice) merged with itself is the record set: the same records
\* in the same order with the same field values.
C6_MergeIdempotent ==
    (/\ mergePc = "merged"
     /\ newRows = oldRows
     /\ \A k \in 1..Len(oldRows) :
            /\ IdentifierOf(oldRows[k]) # EmptyString
            /\ RecordsWith(oldRows, IdentifierOf(oldRows[k])) = {k})
        => mergedShipments = oldRows

\* C6 witness: a set of two records "a" and "b", with empty and non-empty
\* fields, has been merged with itself and the result is the set.
C6_Witness ==
    /\ mergePc = "merged"
    /\ oldRows = <<Shipment(<<"a">>, <<"x">>, EmptyString),
                   Shipment(<<"b">>, EmptyString, <<"u">>)>>
    /\ newRows = oldRows
    /\ mergedShipments = oldRows

(***************************************************************************)
(* Claims about the scripts that write the sheet.                          *)
(***************************************************************************)
LastScript == IF scriptRuns = <<>> THEN "none" ELSE scriptRuns[Len(scriptRuns)]

\* The two columns the force update writes.
ExemptColumns == {"Is Cacao Shipment", "Serialized"}

\* A cell is empty when it holds nothing but white space (the test the
\* scripts apply:  !value || value.trim() === '').
CellEmpty(value) == \A k \in 1..Len(value) : value[k] \in WhiteSpace

\* The rows the last run found in the sheet, and their columns.
RowsBefore == 1..Len(sheetBefore)

\* C1: the sheet writer preserves manual edits. After a run of
\* merge-and-upload or of update-coordinates-from-urls, every cell of a
\* non-exempt column that was non-empty before the run holds the same value;
\* a cell whose value changed was set by the run; and a cell was set only if
\* it was empty and the new value is non-empty.
C1_WritePreservesManualEdits ==
    (LastScript \in {"mergeAndUpload", "updateCoordinates"}) =>
        /\ Len(sheetRows) >= Len(sheetBefore)
        /\ \A k \in RowsBefore : \A h \in HeaderSet \ ExemptColumns :
               /\ ~CellEmpty(sheetBefore[k][h]) => sheetRows[k][h] = sheetBefore[k][h]
               /\ sheetRows[k][h] # sheetBefore[k][h] =>
                      <<k, h, sheetRows[k][h]>> \in setCells
        /\ \A t \in setCells :
               t[2] \notin ExemptColumns =>
                   /\ t[1] \in RowsBefore
                   /\ CellEmpty(sheetBefore[t[1]][t[2]])
                   /\ ~CellEmpty(t[3])

\* C1 witness: merge-and-upload has processed a row of shipment A whose
\* Status was edited by hand and whose Google Maps URL was empty, with a
\* record that has another status and a map URL: the Status is kept and the
\* URL is filled in.
C1_Witness ==
    /\ LastScript = "mergeAndUpload"
    /\ \E k \in RowsBefore :
           /\ sheetBefore[k]["Shipment ID"] = <<"A">>
           /\ sheetBefore[k]["Status"] = Manual
           /\ sheetBefore[k]["Google Maps URL"] = EmptyString
           /\ sheetRows[k]["Status"] = Manual
           /\ sheetRows[k]["Google Maps URL"] = Marker1
           /\ <<k, "Google Maps URL", Marker1>> \in setCells
    /\ \E j \in 1..Len(newDataRows) :
           /\ newDataRows[j]["shipment_contract_number"] = <<"a">>
           /\ newDataRows[j]["shipment_status"] = <<"x">>

\* The CSV field a flag column is written from.
FlagField(column) ==
    IF column = "Is Cacao Shipment" THEN "is_cacao_shipment" ELSE "serialized"

\* The rows of the sheet with the identifier of row k.
SameIdRows(k) ==
    {j \in RowsBefore :
        toUpperCase(sheetBefore[j]["Shipment ID"]) = toUpperCase(sheetBefore[k]["Shipment ID"])}

\* The new value the force update has for a flag column of row k: that of
\* the last record of the new CSV with the identifier of the row and a
\* non-empty flag, if the row is the first row with its identifier.
ForceNewValue(k, column) ==
    LET records == {j \in RecordsWith(newDataRows, toUpperCase(sheetBefore[k]["Shipment ID"])) :
                        ~CellEmpty(newDataRows[j][FlagField(column)])}
    IN  IF sheetBefore[k]["Shipment ID"] # EmptyString /\ k = Min(SameIdRows(k))
           /\ records # {}
            THEN newDataRows[Max(records)][FlagField(column)]
            ELSE EmptyString

\* The new value merge-and-upload has for a flag column of row k: that of the
\* merged record with the identifier of the row, if the row is the last row
\* with its identifier.
MergeNewValue(k, column) ==
    LET merged == mergeDataRows(oldDataRows, newDataRows)
        records == RecordsWith(merged, toUpperCase(sheetBefore[k]["Shipment ID"]))
    IN  IF Len(oldDataRows) > 0 /\ Len(newDataRows) > 0
           /\ sheetBefore[k]["Shipment ID"] # EmptyString /\ k = Max(SameIdRows(k))
           /\ records # {}
            THEN merged[Max(records)][FlagField(column)]
            ELSE EmptyString

C3_WriterIdempotent ==
    (scriptRuns = <<"mergeAndUpload", "mergeAndUpload">>) =>
        /\ setCells = {}
        /\ savedRows = 0
        /\ addedRows = 0
        /\ sheetRows = sheetBefore

\* C3 witness: merge-and-upload has run twice; the first run added a row for
\* shipment b (the sheet has a row more than any sheet has at the start) and
\* filled in the map URL and the Longitude of the row of shipment A, and the
\* second run changed nothing.
C3_Witness ==
    /\ scriptRuns = <<"mergeAndUpload", "mergeAndUpload">>
    /\ Len(sheetRows) = MaxSheetRows + 1
    /\ sheetRows[MaxSheetRows]["Shipment ID"] = <<"A">>
    /\ sheetRows[MaxSheetRows]["Status"] = Manual
    /\ sheetRows[MaxSheetRows]["Google Maps URL"] = Marker1
    /\ sheetRows[MaxSheetRows]["Latitude"] = <<"4">>
    /\ sheetRows[MaxSheetRows]["Longitude"] = <<"-", "2", ".", "5">>
    /\ sheetRows[MaxSheetRows + 1]["Shipment ID"] = <<"b">>
    /\ sheetRows = sheetBefore
    /\ setCells = {}
    /\ savedRows = 0
    /\ addedRows = 0

\* C11: the CSV parser is total on malformed input. For every text, parseCSV
\* returns without an error and its caller reads the result without an error;
\* every row kept has a non-blank field, the first row kept supplies the keys
\* of every record, and a record of a row shorter than the header holds the
\* empty string under every header the row has no field for.
C11_ParserTotalOnMalformedInput ==
    /\ csvPc # "TypeError"
    /\ (csvPc \in {"parsed", "logged"} /\ csvResult.kind = "object") =>
           \E rows \in {csvRows(csvContent)} :
               /\ \A k \in 1..Len(rows) : SomeFieldTruthy(rows[k])
               /\ Len(csvResult.dataRows) = Len(rows) - 1
               /\ \A k \in 1..Len(csvResult.dataRows) :
                      /\ DOMAIN csvResult.dataRows[k]
                             = {Trim(StripQuotes(rows[1][j])) : j \in 1..Len(rows[1])}
                      /\ \A j \in 1..Len(rows[1]) :
                             j > Len(rows[k + 1]) =>
                                 csvResult.dataRows[k][Trim(StripQuotes(rows[1][j]))]
                                     = EmptyString

\* The strings that count as true in a flag cell.
TruthyStrings ==
    {<<"t", "r", "u", "e">>, <<"y", "e", "s">>, <<"1">>, <<"y">>}

\* value is one of them, upper and lower case taken as the same.
IsTruthyFlag(value) ==
    \E t \in TruthyStrings :
        /\ Len(value) = Len(t)
        /\ \A k \in 1..Len(t) : toLowerCaseChar(value[k]) = t[k]

\* The writeFileSync calls of the last run under the root of a family.
WritesUnder(familyDir) ==
    SelectSeq(fileSystem.writes, LAMBDA w : w.path.root = familyDir)

\* The identifier a page shows in its heading.
PageTitle(html) ==
    html[CHOOSE k \in 1..Len(html) : html[k].kind = "body" /\ html[k].name = "h1"].text

\* The identifiers of the loaded shipments the flag of which is truthy.
FlaggedIds(flag) ==
    Bind(SelectSeq(loadedShipments, LAMBDA s : IsTruthyFlag(s[flag])), LAMBDA flagged :
         [k \in 1..Len(flagged) |-> flagged[k].shipment_contract_number])

\* The identifiers of the pages written under the root of a family.
WrittenIds(familyDir) ==
    Bind(WritesUnder(familyDir), LAMBDA ws :
         [k \in 1..Len(ws) |-> PageTitle(ws[k].html)])

\* C12: routing independence. After a run of generate-shipment-pages the
\* pages written under the Agroverse root are those of the shipments whose
\* is_cacao_shipment is one of "true", "yes", "1", "y" in any case, and the
\* pages written under the Sunmint root are those of the shipments whose
\* serialized is one of them: each flag decides for its own family only, and
\* any other value, the empty one included, routes nowhere.
C12_RoutingIndependence ==
    (LastScript = "generatePages") =>
        /\ WrittenIds(agroverseDir) = FlaggedIds("is_cacao_shipment")
        /\ WrittenIds(sunmintDir) = FlaggedIds("serialized")

\* C12 witness: a run on a sheet with one row; one flag is truthy in upper
\* case and the other is not truthy, and the page of the one family is
\* written and that of the other is not.
C12_Witness ==
    /\ LastScript = "generatePages"
    /\ Len(loadedShipments) = 1
    /\ loadedShipments[1].is_cacao_shipment = <<"n", "o">>
    /\ loadedShipments[1].serialized = <<"T", "R", "U", "E">>
    /\ WritesUnder(agroverseDir) = <<>>
    /\ Len(WritesUnder(sunmintDir)) = 1

\* The loaded shipments the flag of which is truthy, in sheet order.
Flagged(flag) == SelectSeq(loadedShipments, LAMBDA s : IsTruthyFlag(s[flag]))

\* The path of the page of a shipment in a family.
PagePath(familyDir, shipment) ==
    [root |-> familyDir,
     name |-> [k \in 1..Len(shipment.shipment_contract_number) |->
                   toLowerCaseChar(shipment.shipment_contract_number[k])],
     file |-> "index.html"]

\* The directory a path lies in.
DirOf(path) == [root |-> path.root, name |-> path.name]

\* The paths written by the last run.
WrittenPaths == {fileSystem.writes[k].path : k \in 1..Len(fileSystem.writes)}

\* The last content the last run wrote to a path.
LastWritten(path) ==
    fileSystem.writes[CHOOSE k \in 1..Len(fileSystem.writes) :
                          /\ fileSystem.writes[k].path = path
                          /\ \A j \in (k + 1)..Len(fileSystem.writes) :
                                 fileSystem.writes[j].path # path].html

\* One write per shipment routed to the family, in order, each to index.html
\* in the directory named after the lower-cased identifier.
FamilyAddressed(familyDir, flag) ==
    \E routed \in {Flagged(flag)}, ws \in {WritesUnder(familyDir)} :
        /\ Len(ws) = Len(routed)
        /\ \A k \in 1..Len(ws) : ws[k].path = PagePath(familyDir, routed[k])

\* C13: output addressing. A run of generate-shipment-pages writes, for every
\* shipment routed to a family, the one file index.html in the directory
\* <family root>/<lower-cased identifier> and nothing else; the directory is
\* created when it did not exist (and only then); the file holds the page just
\* written and nothing of what it held before; and every other file is as it
\* was.
C13_OutputAddressing ==
    (LastScript = "generatePages") =>
        /\ FamilyAddressed(agroverseDir, "is_cacao_shipment")
        /\ FamilyAddressed(sunmintDir, "serialized")
        /\ Len(fileSystem.writes)
               = Len(WritesUnder(agroverseDir)) + Len(WritesUnder(sunmintDir))
        /\ fileSystem.dirs = fileSystemBefore.dirs \cup {DirOf(path) : path \in WrittenPaths}
        /\ \A dir \in fileSystem.dirs :
               Cardinality({k \in 1..Len(fileSystem.mkdirs) : fileSystem.mkdirs[k] = dir})
                   = IF dir \in fileSystemBefore.dirs THEN 0 ELSE 1
        /\ DOMAIN fileSystem.files = DOMAIN fileSystemBefore.files \cup WrittenPaths
        /\ \A path \in DOMAIN fileSystem.files :
               fileSystem.files[path] = IF path \in WrittenPaths THEN LastWritten(path)
                                        ELSE fileSystemBefore.files[path]

\* C13 witness: a run on a sheet with shipment A routed to both families; the
\* Agroverse directory a existed and held an older page, which is replaced
\* without a mkdir, and the Sunmint directory a is created.
C13_Witness ==
    /\ LastScript = "generatePages"
    /\ Len(loadedShipments) = 1
    /\ loadedShipments[1].shipment_contract_number = <<"A">>
    /\ Len(WritesUnder(agroverseDir)) = 1
    /\ Len(WritesUnder(sunmintDir)) = 1
    /\ fileSystemBefore \in FileSystems \ {NoFiles}
    /\ fileSystemBefore.files[[root |-> agroverseDir, name |-> <<"a">>, file |-> "index.html"]]
           = OldPage
    /\ fileSystem.files[[root |-> agroverseDir, name |-> <<"a">>, file |-> "index.html"]]
           = WritesUnder(agroverseDir)[1].html
    /\ fileSystem.mkdirs = <<[root |-> sunmintDir, name |-> <<"a">>]>>

\* The character references the escaping writes.
CharacterReferences == {AMP, LTE, GTE, QUOT, APOS}

\* text holds one of & < > " ' as it is: a <, >, " or ', or an & that does
\* not start one of the character references.
HasRawMarkup(text) ==
    \E k \in 1..Len(text) :
        \/ text[k] \in {"<", ">", QUOTE, "'"}
        \/ /\ text[k] = "&"
           /\ \A ref \in CharacterReferences : ~LiteralAt(text, k, ref)

\* The line breaks the templates put into a description.
BR == <<"<", "b", "r", ">">>

\* The text of a part without what the template itself adds to it.
RecordText(part) ==
    IF part.kind = "body" /\ part.name = "description"
        THEN replace(part.text, <<Lit(BR)>>, <<LF>>)
        ELSE part.text

\* C14: markup neutralization. In a page of either family every value
\* inserted as element content or as an attribute value (the identifier in the
\* title and the headings, the status, the description, the amounts, the URLs)
\* has its & < > " ' escaped.
C14_MarkupNeutralized ==
    (renderPc # "ready") =>
        \A k \in 1..Len(renderPage) :
            renderPage[k].kind \in {"body", "attr"} => ~HasRawMarkup(RecordText(renderPage[k]))

\* What every fragment holds.
FamilyParameter == <<"f", "a", "m", "i", "l", "y", "=">>

\* The text of the parts of the page that show the description: the paragraph
\* of the body, and the description meta tags of the head.
DescriptionBody ==
    {renderPage[k].text : k \in {j \in 1..Len(renderPage) :
                                     /\ renderPage[j].kind = "body"
                                     /\ renderPage[j].name = "description"}}

DescriptionAttributes ==
    {renderPage[k].text : k \in {j \in 1..Len(renderPage) :
                                     /\ renderPage[j].kind = "attr"
                                     /\ renderPage[j].name \in {"description", "og:description",
                                                                "twitter:description"}}}

\* C15: strip, then escape. A description with a stray stylesheet link tag in
\* it is shown as the text around the tag, HTML-escaped, and a description
\* with a fragment of a font-service URL in it is shown without the fragment:
\* nothing of a fragment is in the page where the description is shown,
\* escaped or not.
C15_StripThenEscape ==
    (renderPc # "ready") =>
        \A before \in PlainTexts, fragment \in Fragments, after \in AfterTexts :
            (getValue(renderRow, "Description") = before \o fragment \o after) =>
                /\ \A text \in DescriptionBody \cup DescriptionAttributes :
                       ~includes(toLowerCase(text), FamilyParameter)
                /\ fragment \in {LinkFragment, UpperLinkFragment} =>
                       DescriptionBody = {escapeEntities(before \o after)}
                /\ \A text \in DescriptionBody :
                       LiteralAt(text, 1, escapeEntities(before))

\* The conditional sections of a page: the markup each is made of, heading
\* included, and the columns of the row each shows.
PageSections ==
    {[markup |-> {"h3 Location", "div map", "a View on Google Maps", "script initMap"},
      columns |-> {"Google Maps URL", "Latitude", "Longitude"}],
     [markup |-> {"h3 Financing", "dt Funding approach", "dt Financing Contract",
                  "dt Capital Returns"},
      columns |-> {"Transaction Type", "Contract URL", "Investment ROI"}],
     [markup |-> {"h3 Documents", "li Farmer's Invoice", "li FDA prior Notice",
                  "li Purchase Order", "li Lab Report"},
      columns |-> {"Invoice URL", "FDA Prior Notice", "Purchase Order URL", "Lab Report"}]}

\* The page holds markup of the section.
SectionShown(section) ==
    \E k \in 1..Len(renderPage) :
        renderPage[k].kind = "markup" /\ renderPage[k].name \in section.markup

\* C16: conditional sections. A page holds markup of the map block, of the
\* financing block or of the documents list, their headings included, only
\* when one of the fields the section shows is non-empty.
C16_ConditionalSections ==
    (renderPc # "ready") =>
        \A section \in PageSections :
            SectionShown(section) =>
                \E column \in section.columns : getValue(renderRow, column) # EmptyString

\* What a run has done so far.
Wrote == \E i \in 1..Len(procTrace) :
             procTrace[i].kind = "call" /\ procTrace[i].what \in WriteCalls
Logged == \E i \in 1..Len(procTrace) : procTrace[i].kind = "log"
PreconditionMissing == procScript \in Scripts /\ (~procEnv.credentials \/ ~procEnv.sheet)

\* C17: in every script, when the credentials file is missing or the tab does
\* not exist, the run writes nothing to the spreadsheet or to the disk, and it
\* ends with a logged message and a non-zero exit status.
C17_FatalPreconditions ==
    PreconditionMissing =>
        /\ ~Wrote
        /\ procExit # "running" => (procExit = "exit 1" /\ Logged)

\* The positions of the run at which a call raised an exception.
Raised == {i \in 1..Len(procTrace) : procTrace[i].kind = "throw"}
PreconditionsMet == procScript \in Scripts /\ procEnv.credentials /\ procEnv.sheet

\* C19: in every script, once a call of the spreadsheet API or a write to the
\* disk has raised an exception, the run makes no further call (no retry, no
\* alternative attempt) and it ends with a non-zero exit status.
C19_ExceptionsFatal ==
    PreconditionsMet =>
        \A i \in Raised :
            /\ \A j \in (i + 1)..Len(procTrace) : procTrace[j].kind = "log"
            /\ procExit # "running" => procExit = "exit 1"

\* The loads of generate-shipment-pages.js that have started and not settled,
\* and the positions of a message in the log of the run.
LoadsInFlight == {c \in DOMAIN procPc : procPc[c] \in {"loadInfo", "loadHeaderRow", "getRows"}}
LoggedAt(msg) == {i \in 1..Len(procTrace) : procTrace[i] = Log(msg)}
SuccessAfterPages ==
    \A i \in LoggedAt("All pages generated successfully!") :
        \E j \in LoggedAt("Generated shipment pages") : j < i

\* C20: in a run of generate-shipment-pages.js at most one load of the
\* spreadsheet is in flight at any time, the pages are generated at most once
\* and exactly once in a run that succeeds, and 'All pages generated
\* successfully!' is logged only after the pages have been written.
C20_NoConcurrency ==
    procScript = "generatePages" =>
        /\ Cardinality(LoadsInFlight) <= 1
        /\ Cardinality(LoggedAt("Generated shipment pages")) <= 1
        /\ procExit = "exit 0" => Cardinality(LoggedAt("Generated shipment pages")) = 1
        /\ SuccessAfterPages

\* The page holds the markup.
HasMarkup(html, name) ==
    \E k \in 1..Len(html) : html[k].kind = "markup" /\ html[k].name = name

\* The records of the CSV file the sheet has a row for, and those it has none for.
RecordFound(k) ==
    /\ shipmentKey(newDataRows[k]) # EmptyString
    /\ findRow(sheetBefore, shipmentKey(newDataRows[k])) # 0
RecordNotFound(k) ==
    /\ shipmentKey(newDataRows[k]) # EmptyString
    /\ findRow(sheetBefore, shipmentKey(newDataRows[k])) = 0

\* updateValues has set the flags of every record the sheet has a row for.
EveryFoundRecordUpdated ==
    \A k \in 1..Len(newDataRows) :
        RecordFound(k) =>
            \A flag \in {<<"Is Cacao Shipment", "is_cacao_shipment">>,
                         <<"Serialized", "serialized">>} :
                IsFilled(newDataRows[k][flag[2]]) =>
                    <<findRow(sheetBefore, shipmentKey(newDataRows[k])), flag[1],
                      newDataRows[k][flag[2]]>> \in setCells

\* updateCoordinates has filled the blank map cells of every entry of its
\* table the sheet has a row for.
EveryFoundEntryUpdated ==
    \A k \in 1..Len(shipmentUpdates) :
        \E index \in {findRow(sheetBefore, toUpperCase(shipmentUpdates[k].id))},
           coordinates \in {extractCoordinates(shipmentUpdates[k].googleMapUrl)} :
            index # 0 =>
                /\ IsBlank(sheetBefore[index]["Google Maps URL"]) =>
                       <<index, "Google Maps URL", shipmentUpdates[k].googleMapUrl>>
                           \in setCells
                /\ (coordinates # null /\ IsBlank(sheetBefore[index]["Latitude"])) =>
                       <<index, "Latitude", coordinates.lat>> \in setCells
                /\ (coordinates # null /\ IsBlank(sheetBefore[index]["Longitude"])) =>
                       <<index, "Longitude", coordinates.lng>> \in setCells

\* generatePages has written the page of every shipment routed to the family,
\* with the image element when the image is on disk and only then, and with
\* the map when the shipment has coordinates and only then.
EveryRoutedPageWritten(familyDir, flag) ==
    \E routed \in {Flagged(flag)}, ws \in {WritesUnder(familyDir)} :
        /\ Len(ws) = Len(routed)
        /\ \A k \in 1..Len(ws) :
               /\ PageTitle(ws[k].html) = routed[k].shipment_contract_number
               /\ HasMarkup(ws[k].html, "img")
                      <=> getImagePath(routed[k].shipment_contract_number) \in imagesOnDisk
               /\ HasMarkup(ws[k].html, "div map")
                      <=> pageCoordinates(routed[k], routed[k].google_map_url) # null

\* C18: per-record soft failures never abort the batch. A record of the CSV
\* file, or an entry of the coordinate table, that the sheet has no row for is
\* skipped and every other one is still processed; a shipment whose image file
\* is absent, or that has no coordinates, gets its page without the image
\* element, or without the map, and every other page is still written.
C18_SoftFailuresSkipped ==
    /\ (LastScript = "updateValues") => EveryFoundRecordUpdated
    /\ (LastScript = "updateCoordinates") => EveryFoundEntryUpdated
    /\ (LastScript = "generatePages") =>
           /\ EveryRoutedPageWritten(agroverseDir, "is_cacao_shipment")
           /\ EveryRoutedPageWritten(sunmintDir, "serialized")

\* updateValues has skipped a record the sheet has no row for and has then
\* set a flag of a later record.
C18_Witness ==
    /\ LastScript = "updateValues"
    /\ \E k \in 1..Len(newDataRows), later \in 1..Len(newDataRows) :
           /\ k < later
           /\ RecordNotFound(k)
           /\ RecordFound(later)
           /\ <<findRow(sheetBefore, shipmentKey(newDataRows[later])), "Serialized",
                newDataRows[later]["serialized"]>> \in setCells

\* The rows of the sheet a run of the stepwise writer leaves when nothing
\* interrupts it and nobody edits the sheet.
CompleteRows ==
    IF crashScript = "mergeAndUpload"
        THEN mergeUploadLoop(RunStart(crashBefore),
                             existingShipmentsMap(<<>>, crashBefore, 1), crashTodo, 1).rows
        ELSE updateCoordinatesLoop(RunStart(crashBefore), crashTodo, 1).rows

\* C21: crash consistency. Wherever a writer run is interrupted between its
\* write calls, every row of the sheet is as it was before the run or holds
\* all the changes the run makes to that row, and every row the run has added
\* is complete: no row holds a part of its changes only.
C21_CrashConsistency ==
    (crashPc \in {"loaded", "interrupted", "done"} /\ crashEdits = <<>>) =>
        \E complete \in {CompleteRows} :
            /\ Len(crashBefore) <= Len(crashSheet)
            /\ Len(crashSheet) <= Len(complete)
            /\ \A i \in 1..Len(crashSheet) :
                   \/ i <= Len(crashBefore) /\ crashSheet[i] = crashBefore[i]
                   \/ crashSheet[i] = complete[i]
            /\ crashPc = "done" => crashSheet = complete

\* A run interrupted after it changed a row, with several cells set, and
\* before it wrote everything it had to write.
C21_Witness ==
    /\ crashPc = "interrupted"
    /\ crashEdits = <<>>
    /\ \E i \in 1..Len(crashBefore) :
           /\ crashSheet[i] # crashBefore[i]
           /\ Cardinality({h \in DOMAIN crashSheet[i] :
                               crashSheet[i][h] # crashBefore[i][h]}) > 1
    /\ crashSheet # CompleteRows

\* C25: the stale-snapshot race. The writer takes a cell for empty when it was
\* empty in the rows it loaded: whenever it has a value for a cell that was
\* empty at the start of the run, and the loop has come to that row, the sheet
\* holds that value, also when a human had typed a value into the cell after
\* the rows were loaded and before the row was saved; the typed value is gone.
C25_StaleSnapshotRace ==
    (crashPc \in {"loaded", "interrupted", "done"}) =>
        \A cell \in crashRun.set :
            /\ IsBlank(crashBefore[cell[1]][cell[2]])
            /\ crashSheet[cell[1]][cell[2]] = cell[3]

\* The human typed into an empty cell during the run, the run saved the row
\* afterwards, and the cell now holds the value of the run.
C25_Witness ==
    /\ crashPc = "done"
    /\ \E k \in 1..Len(crashEdits) :
           /\ \E cell \in crashRun.set :
                  /\ cell[1] = crashEdits[k].index
                  /\ cell[2] = crashEdits[k].column
                  /\ cell[3] # Manual
                  /\ crashSheet[cell[1]][cell[2]] = cell[3]

\* C22: the full upload replaces the tab. After a run of
\* upload-shipments-to-sheets the tab exists, its header row is the header
\* list of the script, and its data rows are the rows mapped from the CSV
\* records, in CSV order: no row the tab held before remains.
C22_UploadReplacesTab ==
    (uploadPc = "done") =>
        /\ uploadTab.exists
        /\ uploadTab.header = Headers
        /\ uploadTab.rows = mapShipmentsToRows(uploadShipments)

\* An upload of CSV records into a tab that held other rows.
C22_Witness ==
    /\ uploadPc = "done"
    /\ uploadBefore.rows # <<>>
    /\ uploadShipments # <<>>
    /\ \A k \in 1..Len(uploadBefore.rows) :
           \A j \in 1..Len(uploadTab.rows) : uploadTab.rows[j] # uploadBefore.rows[k]

\* The last call met a sheet that does not exist or has no data rows, or a
\* spreadsheet call of it failed.
SoftFailure ==
    \/ ~perfBefore.exists
    \/ perfBefore.rows = <<>>
    \/ perfCall.fails # "none"

\* C23: updatePerformanceStatistic never throws. Every call returns normally;
\* when the sheet does not exist, has no data rows, or the update fails, the
\* call logs a message and leaves the sheet as it was.
C23_NeverThrows ==
    (perfCalls > 0) =>
        /\ perfPc = "returned"
        /\ SoftFailure => (perfSheet = perfBefore /\ perfLog # "")

\* Each key is in one row of the sheet at most.
KeysUnique(rows) == \A i, j \in 1..Len(rows) : rows[i].key = rows[j].key => i = j

\* The last call changed nothing in row i but what a call may change in the
\* row of its key: the value, the currency when one is given, the dates.
OnlyValueCells(i) ==
    /\ perfSheet.rows[i].key = perfBefore.rows[i].key
    /\ perfSheet.rows[i].description = perfBefore.rows[i].description
    /\ perfSheet.rows[i].value = valueCell(perfCall.value)
    /\ perfSheet.rows[i].currency =
           (IF perfCall.currency # "" THEN perfCall.currency ELSE perfBefore.rows[i].currency)

\* C29: key uniqueness of Performance Statistics. From a sheet with at least
\* one data row and each key in one row at most, after any calls of
\* updatePerformanceStatistic each key is still in one row at most: a call for
\* a key the sheet has changes the value, the currency (when given) and the
\* dates of that row and nothing else, and a call for a key the sheet does not
\* have appends exactly one row, with that key.
C29_KeysStayUnique ==
    /\ KeysUnique(perfSheet.rows)
    /\ (perfPc = "returned" /\ perfBefore.rows # <<>> /\ perfCall.fails = "none") =>
           IF \E i \in 1..Len(perfBefore.rows) : perfBefore.rows[i].key = perfCall.key
               THEN /\ Len(perfSheet.rows) = Len(perfBefore.rows)
                    /\ \A i \in 1..Len(perfBefore.rows) :
                           IF perfBefore.rows[i].key = perfCall.key
                               THEN OnlyValueCells(i)
                               ELSE perfSheet.rows[i] = perfBefore.rows[i]
               ELSE /\ Len(perfSheet.rows) = Len(perfBefore.rows) + 1
                    /\ SubSeq(perfSheet.rows, 1, Len(perfBefore.rows)) = perfBefore.rows
                    /\ perfSheet.rows[Len(perfSheet.rows)].key = perfCall.key

\* Two calls for one key: the first wrote the row of the key, the second
\* updated that row and added none.
C29_Witness ==
    /\ perfCalls = 2
    /\ perfPc = "returned"
    /\ Len(perfSheet.rows) = Len(perfBefore.rows)
    /\ \E i \in 1..Len(perfSheet.rows) :
           /\ perfSheet.rows[i].key = perfCall.key
           /\ perfSheet.rows[i].updated = 2
           /\ perfSheet.rows[i].description = perfCall.key
           /\ perfBefore.rows[i].updated = 1

(***************************************************************************)
(* Claims about the trees-sold script of a page.                           *)
(***************************************************************************)

\* The request of the page succeeded: a response that is ok arrived, and its
\* body is an object without an error that carries a count.
TreesSucceeded ==
    /\ treesResponse.fetch = "fulfilled"
    /\ treesResponse.ok
    /\ treesResponse.body.json = "object"
    /\ ~treesResponse.body.error
    /\ treesResponse.body.treesSold \notin {Undefined, Null}

TreesRequested == treesPc \in {"pending", "rejected", "response", "data", "fulfilled", "done"}

\* C24: in a generated page, each loading indicator next to a trees count is
\* shown while the request is pending and hidden once the chain has ended,
\* whatever the outcome; after a success every displayed trees count is
\* data.treesSold, and after any other outcome every displayed trees count is
\* the static value the page was rendered with.
C24_GracefulDegradation ==
    /\ treesPc = "pending" => \A i \in DOMAIN treesLoading : treesLoading[i] = "inline"
    /\ treesPc = "done" =>
           /\ \A i \in DOMAIN treesLoading : treesLoading[i] = "none"
           /\ \A i \in DOMAIN treesCount :
                  treesCount[i].textContent =
                      IF TreesSucceeded
                      THEN String(treesResponse.body.treesSold)
                      ELSE treesPage.treesToBePlanted

\* The part of C24 that the script keeps: the same statement about the first
\* count and the first indicator of the page.
C24_FirstElementOnly ==
    /\ treesPc = "pending" => treesLoading[1] = "inline"
    /\ treesPc = "done" =>
           /\ treesLoading[1] = "none"
           /\ treesCount[1].textContent =
                  IF TreesSucceeded
                  THEN String(treesResponse.body.treesSold)
                  ELSE treesPage.treesToBePlanted
           /\ \A i \in DOMAIN treesCount :
                  i # 1 => treesCount[i].textContent = treesPage.treesToBePlanted

\* Once the request is made, the indicator the script showed is hidden again.
C24_EventuallyHidden ==
    TreesRequested ~> (treesPc = "done" /\ \A i \in DOMAIN treesLoading : treesLoading[i] = "none")

\* A page whose header shows the count the service returned while the row of
\* its overview still shows the static value.
C24_CountsDiffer ==
    /\ treesPc = "done"
    /\ TreesSucceeded
    /\ treesCount[1].textContent # treesCount[2].textContent

(***************************************************************************)
(* Claims about queryBlogPosts.                                            *)
(***************************************************************************)

\* The offsets of the queries made are 0, limit, 2 * limit, ...
OffsetsInSteps ==
    \A i \in 1..Len(blogQueries) :
        blogQueries[i] = [limit |-> limit, offset |-> (i - 1) * limit]

\* C26: queryBlogPosts asks for the pages at offsets 0, limit, 2 * limit, ...
\* and, when it returns, has collected every post of the collection exactly
\* once, also when the responses carry no paging total; it ends (returns or
\* throws) after at most one query more than the collection has full pages.
C26_PaginationComplete ==
    /\ OffsetsInSteps
    /\ Len(blogQueries) <= Len(blogCollection) \div limit + 1
    /\ blogPc = "returned" => allPosts = blogCollection

\* What the loop keeps: what was collected is the start of the collection in
\* order, and the function returns only on its own test, the one of line 75.
C26_CollectedPrefix ==
    /\ OffsetsInSteps
    /\ Len(blogQueries) <= Len(blogCollection) \div limit + 1
    /\ allPosts = SubSeq(blogCollection, 1, Len(allPosts))
    /\ blogPc = "returned" =>
           \/ blogCarriesTotal /\ allPosts = blogCollection
           \/ ~blogCarriesTotal /\ Len(blogQueries) = 1
           \/ Len(blogLastPage) < limit /\ allPosts = blogCollection

\* queryBlogPosts returned after its first query with posts left behind.
C26_PostsMissed ==
    /\ blogPc = "returned"
    /\ ~blogCarriesTotal
    /\ Len(blogQueries) = 1
    /\ Len(allPosts) = limit
    /\ Len(blogCollection) > limit

(***************************************************************************)
(* Claims about the menu script of a page.                                 *)
(***************************************************************************)

MenuClosed ==
    /\ menuDom.menuToggle.ariaExpanded = "false"
    /\ menuDom.navMenu.ariaHidden = "true"
    /\ "menu-open" \notin menuDom.siteHeader.classList

\* C30: after any sequence of clicks in the header of a generated page, the
\* toggle's aria-expanded is 'true' exactly when the nav menu's aria-hidden
\* is 'false' and exactly when the site header has the class 'menu-open';
\* after a click on a link of the menu or on the overlay the menu is closed.
C30_MenuStateInvariant ==
    /\ menuDom.menuToggle.ariaExpanded \in {"true", "false"}
    /\ menuDom.navMenu.ariaHidden \in {"true", "false"}
    /\ (menuDom.menuToggle.ariaExpanded = "true") <=> (menuDom.navMenu.ariaHidden = "false")
    /\ (menuDom.menuToggle.ariaExpanded = "true") <=>
           ("menu-open" \in menuDom.siteHeader.classList)
    /\ menuClick.target.element \in {"nav-link", "dropdown-link", "site-header"} => MenuClosed

\* The menu was opened, a dropdown in it expanded, and a click on a link of
\* that dropdown closed the menu.
C30_Witness ==
    /\ menuClick.target.element = "dropdown-link"
    /\ MenuClosed
    /\ \A i \in 1..NumDropdowns : menuDom.dropdownToggles[i].ariaExpanded = "false"

\* The menu is open.
C30_MenuOpen ==
    /\ menuDom.menuToggle.ariaExpanded = "true"
    /\ menuDom.navMenu.ariaHidden = "false"
    /\ "menu-open" \in menuDom.siteHeader.classList

(***************************************************************************)
(* Claims about the output tree over several runs.                         *)
(***************************************************************************)

\* The flag that routes to a family.
FamilyFlag(familyDir) == IF familyDir = agroverseDir THEN "is_cacao_shipment" ELSE "serialized"

\* The page directories of the tree: the directories below a family root.
PageDirs == {dir \in fileSystem.dirs : dir.name # EmptyString}

\* The shipments the last run loaded route one to the directory.
RoutedTo(dir) ==
    \E k \in 1..Len(loadedShipments) :
        /\ IsTruthyFlag(loadedShipments[k][FamilyFlag(dir.root)])
        /\ DirOf(PagePath(dir.root, loadedShipments[k])) = dir

\* C27: after a run of generate-shipment-pages, a page directory exists under
\* a family root only for a record that the sheet the run read routes to that
\* family; the page an earlier run wrote for a record whose flag was cleared
\* since, or that was removed from the sheet, is gone.
C27_TreeMatchesSheet ==
    (LastScript = "generatePages") => \A dir \in PageDirs : RoutedTo(dir)

\* What the run does: every record the sheet routes has its directory and
\* the page of this run in it, and every directory and file of the tree
\* before the run is still there, a file not written in this run as it was.
C27_TreeOnlyGrows ==
    (LastScript = "generatePages") =>
        /\ \A k \in 1..Len(loadedShipments) :
               \A familyDir \in {agroverseDir, sunmintDir} :
                   IsTruthyFlag(loadedShipments[k][FamilyFlag(familyDir)]) =>
                       /\ DirOf(PagePath(familyDir, loadedShipments[k])) \in fileSystem.dirs
                       /\ PagePath(familyDir, loadedShipments[k]) \in WrittenPaths
        /\ fileSystemBefore.dirs \subseteq fileSystem.dirs
        /\ \A path \in DOMAIN fileSystemBefore.files :
               /\ path \in DOMAIN fileSystem.files
               /\ path \notin WrittenPaths => fileSystem.files[path] = fileSystemBefore.files[path]

\* A second run after a flag was cleared or a row removed: the page of the
\* first run is still in the tree, and no record of the sheet routes to it.
C27_StalePage ==
    /\ Len(scriptRuns) = 2
    /\ LastScript = "generatePages"
    /\ \E dir \in PageDirs :
           /\ ~RoutedTo(dir)
           /\ indexPath(dir) \in DOMAIN fileSystem.files
           /\ indexPath(dir) \notin WrittenPaths

\* C28: within one run, no output file is written twice, so that two routed
\* records of a family never write the same file, and every write lands in a
\* directory below the family root, also for a routed record whose identifier
\* is empty or differs from that of another record by letter case only: the
\* index.html of the family root and the page of another record are not
\* overwritten.
C28_NoOutputCollisions ==
    (LastScript = "generatePages") =>
        /\ \A i, j \in 1..Len(fileSystem.writes) :
               i # j => fileSystem.writes[i].path # fileSystem.writes[j].path
        /\ \A i \in 1..Len(fileSystem.writes) :
               fileSystem.writes[i].path.name # EmptyString

\* What holds of the writes: records of a family whose identifiers differ
\* when lower-cased write different files, and only a record with an empty
\* identifier writes to a family root.
C28_DistinctLowerCasedIds ==
    (LastScript = "generatePages") =>
        \A familyDir \in {agroverseDir, sunmintDir} :
            \E routed \in {Flagged(FamilyFlag(familyDir))}, ws \in {WritesUnder(familyDir)} :
                /\ Len(ws) = Len(routed)
                /\ \A i, j \in 1..Len(ws) :
                       ws[i].path = ws[j].path
                           <=> toLowerCase(routed[i].shipment_contract_number)
                                   = toLowerCase(routed[j].shipment_contract_number)
                /\ \A i \in 1..Len(ws) :
                       ws[i].path.name = EmptyString
                           <=> routed[i].shipment_contract_number = EmptyString

\* The records a and A are routed to one family, and the page of the second
\* replaced the page of the first.
C28_PageReplaced ==
    /\ LastScript = "generatePages"
    /\ \E i, j \in 1..Len(fileSystem.writes) :
           /\ i < j
           /\ fileSystem.writes[i].path = fileSystem.writes[j].path
           /\ fileSystem.writes[i].html # fileSystem.writes[j].html
           /\ fileSystem.files[fileSystem.writes[i].path] = fileSystem.writes[j].html

\* A routed record without an identifier replaced the index.html of the
\* family root.
C28_FamilyIndexReplaced ==
    /\ LastScript = "generatePages"
    /\ \E familyDir \in {agroverseDir, sunmintDir} :
           /\ indexPath(familyRoot(familyDir)) \in DOMAIN fileSystemBefore.files
           /\ fileSystemBefore.files[indexPath(familyRoot(familyDir))] = FamilyIndex
           /\ fileSystem.files[indexPath(familyRoot(familyDir))] # FamilyIndex

====
